---- MODULE Spec2Model ----
(***************************************************************************)
(* A model of the HPL abstract syntax tree (hpl/ast.py): the bit-set type  *)
(* lattice, the expression constructors with their constructor-time type   *)
(* checks, predicates, events, scopes, patterns, properties, the property  *)
(* sanity check and the type refinement against message schemas.           *)
(*                                                                         *)
(* Python objects live in `heap`, a sequence of records; an object's       *)
(* identity is its index.  A constructor that raises leaves no object      *)
(* behind, but keeps the narrowing it already applied to its arguments.    *)
(***************************************************************************)
EXTENDS Integers, Sequences, FiniteSets, TLC

VARIABLES
    heap,   \* the objects built so far
    op,     \* the last operation: [name, id], id the object it took or made
    err,    \* its outcome: "ok" or the name of the exception raised
    errmsg, \* the message of the sanity error raised ("": none, or not kept)
    prop,   \* the property under analysis (0: none)
    mode,   \* the driver of this run: which operations are exercised
    steps,  \* the number of operations applied so far
    ret     \* what the last operation returned, when that is no object: the
            \* truth value of ==, the number of hash()

vars == <<heap, op, err, errmsg, prop, mode, steps, ret>>

-----------------------------------------------------------------------------
(* Type lattice: a type value is a set of flags.                           *)

T_BOOL == {"boolean"}
T_NUM == {"number"}
T_STR == {"string"}
T_ARR == {"array"}
T_RAN == {"range"}
T_SET == {"set"}
T_MSG == {"ROS msg"}

T_ANY == T_BOOL \cup T_NUM \cup T_STR \cup T_ARR \cup T_RAN \cup T_SET \cup T_MSG
T_COMP == T_ARR \cup T_RAN \cup T_SET
T_PRIM == T_BOOL \cup T_NUM \cup T_STR
T_ROS == T_BOOL \cup T_NUM \cup T_STR \cup T_ARR \cup T_MSG
T_ITEM == T_BOOL \cup T_NUM \cup T_STR \cup T_MSG

-----------------------------------------------------------------------------
(* Objects.  Every record has the same fields:                             *)
(*   kind        the Python class                                          *)
(*   types       the type set (expressions only)                           *)
(*   name        token / field / operator / function / variable / topic    *)
(*   kids        the object's slots, as heap indices (0: None)             *)
(*   aux         alias of an event, quantifier word, literal value kind,   *)
(*               range exclusion flags                                     *)
(*   ros         ros_type / msg_type ("None" when unset)                   *)
(*   defined_at  definition site of a variable reference (0: None)         *)
(*   num         numeric payload: literal value, scope_type, pattern_type  *)

None == "None"

Obj(kind, types, name, kids) ==
    [kind |-> kind, types |-> types, name |-> name, kids |-> kids,
     aux |-> None, ros |-> None, defined_at |-> 0, num |-> 0]

R(h, e, id) == [heap |-> h, err |-> e, id |-> id]
Alloc(h, o) == R(Append(h, o), "ok", Len(h) + 1)
Raise(h, e) == R(h, e, 0)

ExprKinds ==
    {"HplLiteral", "HplThisMessage", "HplVarReference", "HplSet", "HplRange",
     "HplFieldAccess", "HplArrayAccess", "HplUnaryOperator",
     "HplBinaryOperator", "HplFunctionCall", "HplQuantifier"}

is_expression(o) == o.kind \in ExprKinds
is_value(o) ==
    o.kind \in {"HplLiteral", "HplThisMessage", "HplVarReference", "HplSet", "HplRange"}
is_literal(o) == o.kind = "HplLiteral"
is_set(o) == o.kind = "HplSet"
is_range(o) == o.kind = "HplRange"
is_reference(o) == o.kind \in {"HplThisMessage", "HplVarReference"}
is_variable(o) == o.kind = "HplVarReference"
is_this_msg(o) == o.kind = "HplThisMessage"
is_accessor(o) == o.kind \in {"HplFieldAccess", "HplArrayAccess"}
is_field(o) == o.kind = "HplFieldAccess"
is_indexed(o) == o.kind = "HplArrayAccess"
is_operator(o) == o.kind \in {"HplUnaryOperator", "HplBinaryOperator"}
is_quantifier(o) == o.kind = "HplQuantifier"
is_predicate(o) == o.kind \in {"HplPredicate", "HplVacuousTruth", "HplContradiction"}
is_vacuous(o) == o.kind \in {"HplVacuousTruth", "HplContradiction"}
is_true(o) == o.kind = "HplVacuousTruth"
is_event(o) == o.kind \in {"HplSimpleEvent", "HplEventDisjunction"}
is_simple_event(o) == o.kind = "HplSimpleEvent"
is_event_disjunction(o) == o.kind = "HplEventDisjunction"
is_defined(o) == o.defined_at # 0

\* accessor.message: the parent of a field access, the array of an array access
message(o) == o.kids[1]

Reverse(s) == [i \in 1..Len(s) |-> s[Len(s) + 1 - i]]

SelectIds(s) == SelectSeq(s, LAMBDA i : i # 0)

\* children(): the slots that hold an object, in the order each class gives
children(h, n) ==
    LET o == h[n] IN
    CASE o.kind = "HplPattern" ->
            IF o.kids[2] = 0 THEN <<o.kids[1]>> ELSE <<o.kids[2], o.kids[1]>>
      [] o.kind = "HplScope" -> SelectIds(o.kids)
      [] OTHER -> o.kids

RECURSIVE IterateLoop(_, _, _)
IterateLoop(h, stack, out) ==
    IF stack = <<>> THEN out
    ELSE LET obj == stack[Len(stack)]
             rest == SubSeq(stack, 1, Len(stack) - 1)
         IN IterateLoop(h, rest \o Reverse(children(h, obj)), Append(out, obj))

RECURSIVE IterateForward(_, _, _)
IterateForward(h, stack, out) ==
    IF stack = <<>> THEN out
    ELSE LET obj == stack[Len(stack)]
             rest == SubSeq(stack, 1, Len(stack) - 1)
         IN IterateForward(h, rest \o children(h, obj), Append(out, obj))

\* a faulty variant of iterate(): the children are pushed as they come, not
\* reversed, so the last child is popped first
iterate_last_first(h, n) == IterateForward(h, <<n>>, <<>>)

\* iterate(): the objects below n, n first, as the stack loop yields them
iterate(h, n) == IterateLoop(h, <<n>>, <<>>)

Range(s) == {s[i] : i \in 1..Len(s)}

-----------------------------------------------------------------------------
(* Canonical string forms (__str__).                                       *)

RECURSIVE JoinStr(_, _)
JoinStr(ss, sep) ==
    IF ss = <<>> THEN ""
    ELSE IF Len(ss) = 1 THEN ss[1]
    ELSE ss[1] \o sep \o JoinStr(Tail(ss), sep)

RECURSIVE str(_, _)
str(h, n) ==
    LET o == h[n]
        k(i) == str(h, o.kids[i])
    IN
    CASE o.kind = "HplLiteral" -> o.name
      [] o.kind = "HplThisMessage" -> ""
      [] o.kind = "HplVarReference" -> "@" \o o.name
      [] o.kind = "HplSet" ->
            "{" \o JoinStr([i \in 1..Len(o.kids) |-> k(i)], ", ") \o "}"
      [] o.kind = "HplRange" ->
            (IF o.aux \in {"![]", "![]!"} THEN "![" ELSE "[")
            \o k(1) \o " to " \o k(2)
            \o (IF o.aux \in {"[]!", "![]!"} THEN "]!" ELSE "]")
      [] o.kind = "HplFieldAccess" ->
            IF k(1) # "" THEN k(1) \o "." \o o.name ELSE o.name
      [] o.kind = "HplArrayAccess" -> k(1) \o "[" \o k(2) \o "]"
      [] o.kind = "HplUnaryOperator" ->
            "(" \o (IF o.name = "not" THEN "not " ELSE o.name) \o k(1) \o ")"
      [] o.kind = "HplBinaryOperator" ->
            "(" \o k(1) \o " " \o o.name \o " " \o k(2) \o ")"
      [] o.kind = "HplFunctionCall" ->
            o.name \o "(" \o JoinStr([i \in 1..Len(o.kids) |-> k(i)], ", ") \o ")"
      [] o.kind = "HplQuantifier" ->
            "(" \o o.aux \o " " \o o.name \o " in " \o k(1) \o ": " \o k(2) \o ")"
      [] o.kind = "HplPredicate" -> "{ " \o k(1) \o " }"
      [] o.kind = "HplVacuousTruth" -> "{ True }"
      [] o.kind = "HplContradiction" -> "{ False }"
      [] OTHER -> o.kind

-----------------------------------------------------------------------------
(* HplExpression: cast, _type_check, add_type, rem_type.                   *)

\* a faulty variant of cast: the requested type is assigned, not intersected
cast_assign(h, n, t) ==
    IF h[n].types \cap t = {} THEN Raise(h, "HplTypeError")
    ELSE R([h EXCEPT ![n].types = t], "ok", n)

\* cast(t): narrow to the intersection; raise, changing nothing, if empty
cast(h, n, t) ==
    LET r == h[n].types \cap t IN
    IF r = {} THEN Raise(h, "HplTypeError")
    ELSE R([h EXCEPT ![n].types = r], "ok", n)

\* _type_check(x, t): x.cast(t), an HplTypeError re-raised with context
type_check(h, x, t) == cast(h, x, t)

\* add_type(t)
add_type(h, n, t) == R([h EXCEPT ![n].types = @ \cup t], "ok", n)

\* rem_type(t): the assignment comes first, the test after it
rem_type(h, n, t) ==
    LET h2 == [h EXCEPT ![n].types = @ \ t] IN
    IF h2[n].types = {} THEN R(h2, "HplTypeError", 0) ELSE R(h2, "ok", n)

can_be(h, n, t) == h[n].types \cap t # {}

RECURSIVE TypeCheckAll(_, _)
\* a run of _type_check calls, <<x, t>> each, ended by the first that raises
TypeCheckAll(h, checks) ==
    IF checks = <<>> THEN R(h, "ok", 0)
    ELSE LET r == type_check(h, checks[1][1], checks[1][2]) IN
         IF r.err # "ok" THEN r ELSE TypeCheckAll(r.heap, Tail(checks))

\* the object o, allocated once the constructor's checks have passed
Construct(h, o, checks) ==
    LET r == TypeCheckAll(h, checks) IN
    IF r.err # "ok" THEN Raise(r.heap, r.err) ELSE Alloc(r.heap, o)

is_fully_typed(h, n) ==
    \A i \in Range(iterate(h, n)) : Cardinality(h[i].types) = 1

-----------------------------------------------------------------------------
(* Values.                                                                 *)

\* HplLiteral(token, value): vk is the Python type of value, num its number
HplLiteral(h, token, vk, num) ==
    LET t == IF vk = "bool" THEN T_BOOL ELSE IF vk = "str" THEN T_STR ELSE T_NUM IN
    IF vk \notin {"bool", "str", "int", "float"} THEN Raise(h, "TypeError")
    ELSE Alloc(h, [Obj("HplLiteral", t, token, <<>>) EXCEPT !.aux = vk, !.num = num])

HplThisMessage(h) == Alloc(h, Obj("HplThisMessage", T_MSG, "", <<>>))

\* HplVarReference(token): the token is "@" followed by the name kept here
HplVarReference(h, name) == Alloc(h, Obj("HplVarReference", T_ITEM, name, <<>>))

HplSet(h, values) ==
    Construct(h, Obj("HplSet", T_SET, "", values),
              [i \in 1..Len(values) |-> <<values[i], T_PRIM>>])

HplRange(h, lb, ub, flags) ==
    Construct(h, [Obj("HplRange", T_RAN, "", <<lb, ub>>) EXCEPT !.aux = flags],
              << <<lb, T_NUM>>, <<ub, T_NUM>> >>)

\* a faulty variant of subtypes: the items of a collection may be of any
\* primitive type
subtypes_primitive(h, n) == T_PRIM

\* HplSet.subtypes / HplRange.subtypes
subtypes(h, n) ==
    IF is_range(h[n]) THEN T_NUM
    ELSE UNION {h[v].types : v \in Range(h[n].kids)}

-----------------------------------------------------------------------------
(* Accessors.                                                              *)

HplFieldAccess(h, msg, field) ==
    Construct(h, Obj("HplFieldAccess", T_ROS, field, <<msg>>), << <<msg, T_MSG>> >>)

HplArrayAccess(h, array, index) ==
    IF is_accessor(h[array]) /\ is_indexed(h[array]) THEN Raise(h, "HplTypeError")
    ELSE Construct(h, Obj("HplArrayAccess", T_ITEM, "", <<array, index>>),
                   << <<array, T_ARR>>, <<index, T_NUM>> >>)

-----------------------------------------------------------------------------
(* Operators.                                                              *)

UnaryOperators == {"-", "not"}

\* HplUnaryOperator._OPS: (input, output)
UnaryOps(o) == IF o = "-" THEN <<T_NUM, T_NUM>> ELSE <<T_BOOL, T_BOOL>>

HplUnaryOperator(h, o, arg) ==
    IF o \notin UnaryOperators THEN Raise(h, "KeyError")
    ELSE Construct(h, Obj("HplUnaryOperator", UnaryOps(o)[2], o, <<arg>>),
                   << <<arg, UnaryOps(o)[1]>> >>)

BinaryOperators ==
    {"+", "-", "*", "/", "**", "implies", "iff", "or", "and", "=", "!=",
     "<", "<=", ">", ">=", "in"}

\* HplBinaryOperator._OPS: (input, input, output, infix, commutative)
BinaryOps(o) ==
    CASE o \in {"+", "*"} -> <<T_NUM, T_NUM, T_NUM, TRUE, TRUE>>
      [] o \in {"-", "/", "**"} -> <<T_NUM, T_NUM, T_NUM, TRUE, FALSE>>
      [] o = "implies" -> <<T_BOOL, T_BOOL, T_BOOL, TRUE, FALSE>>
      [] o \in {"iff", "or", "and"} -> <<T_BOOL, T_BOOL, T_BOOL, TRUE, TRUE>>
      [] o \in {"=", "!="} -> <<T_PRIM, T_PRIM, T_BOOL, TRUE, TRUE>>
      [] o \in {"<", "<=", ">", ">="} -> <<T_NUM, T_NUM, T_BOOL, TRUE, FALSE>>
      [] o = "in" -> <<T_PRIM, T_SET \cup T_RAN, T_BOOL, TRUE, FALSE>>

\* a faulty variant of HplBinaryOperator: the second operand is not checked
binary_operator_unchecked(h, o, arg1, arg2) ==
    IF o \notin BinaryOperators THEN Raise(h, "KeyError")
    ELSE Construct(h, Obj("HplBinaryOperator", BinaryOps(o)[3], o, <<arg1, arg2>>),
                   << <<arg1, BinaryOps(o)[1]>> >>)

HplBinaryOperator(h, o, arg1, arg2) ==
    IF o \notin BinaryOperators THEN Raise(h, "KeyError")
    ELSE Construct(h, Obj("HplBinaryOperator", BinaryOps(o)[3], o, <<arg1, arg2>>),
                   << <<arg1, BinaryOps(o)[1]>>, <<arg2, BinaryOps(o)[2]>> >>)

-----------------------------------------------------------------------------
(* Function calls.                                                         *)

Parameters(types, var_args) == [types |-> types, var_args |-> var_args]
FunctionType(params, output) == [params |-> params, output |-> output]
F1(a, out) == FunctionType(<<Parameters(<<a>>, FALSE)>>, out)
F2(a, b, out) == FunctionType(<<Parameters(<<a, b>>, FALSE)>>, out)
CompOrNums ==
    FunctionType(<<Parameters(<<T_COMP>>, FALSE),
                   Parameters(<<T_NUM, T_NUM>>, TRUE)>>, T_NUM)
MsgOrQuaternion ==
    FunctionType(<<Parameters(<<T_MSG>>, FALSE),
                   Parameters(<<T_NUM, T_NUM, T_NUM, T_NUM>>, FALSE)>>, T_NUM)

BuiltinNames ==
    {"abs", "bool", "int", "float", "str", "len", "sum", "prod", "sqrt", "ceil",
     "floor", "log", "sin", "cos", "tan", "asin", "acos", "atan", "atan2", "deg",
     "rad", "x", "y", "z", "max", "min", "gcd", "roll", "pitch", "yaw"}

\* HplFunctionCall._BUILTINS
Builtins(f) ==
    CASE f = "bool" -> F1(T_PRIM, T_BOOL)
      [] f \in {"int", "float"} -> F1(T_PRIM, T_NUM)
      [] f = "str" -> F1(T_PRIM, T_STR)
      [] f \in {"len", "sum", "prod"} -> F1(T_COMP, T_NUM)
      [] f \in {"log", "atan2"} -> F2(T_NUM, T_NUM, T_NUM)
      [] f \in {"x", "y", "z"} -> F1(T_MSG, T_NUM)
      [] f \in {"max", "min", "gcd"} -> CompOrNums
      [] f \in {"roll", "pitch", "yaw"} -> MsgOrQuaternion
      [] OTHER -> F1(T_NUM, T_NUM)

\* the type required of argument i by a signature (the last one repeats)
ParamType(params, i) ==
    IF i <= Len(params.types) THEN params.types[i]
    ELSE params.types[Len(params.types)]

\* _match_normal / _match_with_var_args: TRUE when the signature applies
Matches(h, args, params) ==
    /\ IF params.var_args THEN Len(args) >= Len(params.types)
                          ELSE Len(args) = Len(params.types)
    /\ \A i \in 1..Len(args) : can_be(h, args[i], ParamType(params, i))

RECURSIVE type_check_args_eager(_, _, _)
\* a faulty variant of _type_check_args: a signature of the right arity casts
\* the arguments one by one, without looking at them all first
type_check_args_eager(h, args, sigs) ==
    IF sigs = <<>> THEN Raise(h, "HplTypeError")
    ELSE IF IF sigs[1].var_args THEN Len(args) >= Len(sigs[1].types)
                                ELSE Len(args) = Len(sigs[1].types)
         THEN TypeCheckAll(h, [i \in 1..Len(args) |-> <<args[i], ParamType(sigs[1], i)>>])
         ELSE type_check_args_eager(h, args, Tail(sigs))

RECURSIVE type_check_args(_, _, _)
\* _type_check_args: the first signature that matches commits its casts
type_check_args(h, args, sigs) ==
    IF sigs = <<>> THEN Raise(h, "HplTypeError")
    ELSE IF Matches(h, args, sigs[1])
         THEN TypeCheckAll(h, [i \in 1..Len(args) |-> <<args[i], ParamType(sigs[1], i)>>])
         ELSE type_check_args(h, args, Tail(sigs))

HplFunctionCall(h, fun, args) ==
    IF fun \notin BuiltinNames THEN Raise(h, "HplTypeError")
    ELSE LET r == type_check_args(h, args, Builtins(fun).params) IN
         IF r.err # "ok" THEN Raise(r.heap, r.err)
         ELSE Alloc(r.heap, Obj("HplFunctionCall", Builtins(fun).output, fun, args))

-----------------------------------------------------------------------------
(* Quantifiers.                                                            *)

RECURSIVE DomainVarsLoop(_, _, _)
DomainVarsLoop(h, ids, var) ==
    IF ids = <<>> THEN "ok"
    ELSE LET o == h[ids[1]] IN
         IF is_value(o) /\ is_variable(o)
         THEN IF is_defined(o) THEN "AssertionError"
              ELSE IF o.name = var THEN "HplSanityError"
              ELSE DomainVarsLoop(h, Tail(ids), var)
         ELSE DomainVarsLoop(h, Tail(ids), var)

\* a faulty variant of _check_domain_vars: only the domain itself is looked
\* at, not the expressions below it
check_domain_root(h, var, dom) ==
    [err |-> DomainVarsLoop(h, <<dom>>, var),
     types |-> IF is_value(h[dom]) /\ (is_set(h[dom]) \/ is_range(h[dom]))
               THEN subtypes(h, dom) ELSE T_PRIM]

\* _check_domain_vars: the outcome, and the type the variable takes
check_domain_vars(h, var, dom) ==
    [err |-> DomainVarsLoop(h, iterate(h, dom), var),
     types |-> IF is_value(h[dom]) /\ (is_set(h[dom]) \/ is_range(h[dom]))
               THEN subtypes(h, dom) ELSE T_PRIM]

RECURSIVE ExpressionVarsLoop(_, _, _, _, _, _, _)
ExpressionVarsLoop(h, ids, uid, var, t, shadow, used) ==
    IF ids = <<>>
    THEN IF used = 0 THEN Raise(h, "HplSanityError") ELSE R(h, "ok", 0)
    ELSE LET n == ids[1]
             o == h[n]
         IN
         IF is_value(o) /\ is_variable(o) /\ o.name = var
         THEN IF is_defined(o) /\ ~shadow
              THEN IF o.defined_at = uid THEN Raise(h, "AssertionError")
                   ELSE Raise(h, "HplSanityError")
              ELSE LET h2 == [h EXCEPT ![n].defined_at = uid]
                       r == type_check(h2, n, t)
                   IN IF r.err # "ok" THEN Raise(h2, r.err)
                      ELSE ExpressionVarsLoop(r.heap, Tail(ids), uid, var, t,
                                              shadow, used + 1)
         ELSE ExpressionVarsLoop(h, Tail(ids), uid, var, t, shadow, used)

\* a faulty variant of _check_expression_vars: a variable bound by another
\* quantifier is taken over without the shadow flag too
check_expression_vars_shadowing(h, uid, var, p, t, shadow) ==
    ExpressionVarsLoop(h, iterate(h, p), uid, var, t, TRUE, 0)

\* _check_expression_vars
check_expression_vars(h, uid, var, p, t, shadow) ==
    ExpressionVarsLoop(h, iterate(h, p), uid, var, t, shadow, 0)

HplQuantifier(h, qt, var, dom, p, shadow) ==
    LET r1 == TypeCheckAll(h, << <<dom, T_COMP>>, <<p, T_BOOL>> >>)
        d == check_domain_vars(r1.heap, var, dom)
        r2 == check_expression_vars(r1.heap, Len(h) + 1, var, p, d.types, shadow)
    IN
    IF r1.err # "ok" THEN Raise(r1.heap, r1.err)
    ELSE IF d.err # "ok" THEN Raise(r1.heap, d.err)
    ELSE IF r2.err # "ok" THEN Raise(r2.heap, r2.err)
    ELSE Alloc(r2.heap, [Obj("HplQuantifier", T_BOOL, var, <<dom, p>>) EXCEPT !.aux = qt])

SET_REF == "cannot reference quantified variable in the domain"
MULTI_DEF == "multiple definitions of variable"
UNUSED == "quantified variable is never used"

\* the message of the sanity error HplQuantifier raises ("": none): the
\* domain is checked first; in the body a bound occurrence raises when it is
\* met, and the unused variable after the loop, when no occurrence was met
quantifier_message(h, var, dom, p, shadow) ==
    LET r1 == TypeCheckAll(h, << <<dom, T_COMP>>, <<p, T_BOOL>> >>) IN
    IF HplQuantifier(h, "forall", var, dom, p, shadow).err # "HplSanityError" THEN ""
    ELSE IF check_domain_vars(r1.heap, var, dom).err = "HplSanityError" THEN SET_REF
    ELSE IF \E n \in Range(iterate(h, p)) : is_variable(h[n]) /\ h[n].name = var
         THEN MULTI_DEF
         ELSE UNUSED

-----------------------------------------------------------------------------
(* Predicates.                                                             *)

RECURSIVE AddRef(_, _, _)
\* ref_table[key].append(obj), the keys kept in the order they first occur
AddRef(table, key, n) ==
    IF table = <<>> THEN << [key |-> key, refs |-> <<n>>] >>
    ELSE IF table[1].key = key
         THEN <<[table[1] EXCEPT !.refs = Append(@, n)]>> \o Tail(table)
         ELSE <<table[1]>> \o AddRef(Tail(table), key, n)

RECURSIVE RefTableLoop(_, _, _)
RefTableLoop(h, ids, table) ==
    IF ids = <<>> THEN table
    ELSE LET o == h[ids[1]] IN
         IF is_accessor(o) \/ (is_value(o) /\ is_variable(o))
         THEN RefTableLoop(h, Tail(ids), AddRef(table, str(h, ids[1]), ids[1]))
         ELSE RefTableLoop(h, Tail(ids), table)

\* the table _static_checks builds: accessors and variables by string form
ref_table(h, expr) == RefTableLoop(h, iterate(h, expr), <<>>)

RECURSIVE CastChain(_, _, _)
\* for ref in refs: ref.cast(final_type); final_type = ref.types
CastChain(h, refs, final_type) ==
    IF refs = <<>> THEN [heap |-> h, err |-> "ok", types |-> final_type]
    ELSE LET r == cast(h, refs[1], final_type) IN
         IF r.err # "ok" THEN [heap |-> h, err |-> r.err, types |-> final_type]
         ELSE CastChain(r.heap, Tail(refs), r.heap[refs[1]].types)

RECURSIVE all_refs_forward(_, _)
\* a faulty variant of _all_refs_same_type: each group is narrowed forwards only
all_refs_forward(h, table) ==
    IF table = <<>> THEN R(h, "ok", 0)
    ELSE LET fwd == CastChain(h, table[1].refs, T_ANY) IN
         IF fwd.err # "ok" THEN Raise(fwd.heap, fwd.err)
         ELSE all_refs_forward(fwd.heap, Tail(table))

RECURSIVE all_refs_same_type(_, _)
\* _all_refs_same_type: each group is narrowed forwards, then backwards
all_refs_same_type(h, table) ==
    IF table = <<>> THEN R(h, "ok", 0)
    ELSE LET fwd == CastChain(h, table[1].refs, T_ANY)
             bwd == CastChain(fwd.heap, Reverse(table[1].refs), fwd.types)
         IN IF fwd.err # "ok" THEN Raise(fwd.heap, fwd.err)
            ELSE IF bwd.err # "ok" THEN Raise(bwd.heap, bwd.err)
            ELSE all_refs_same_type(bwd.heap, Tail(table))

RECURSIVE any_field_refs(_, _)
\* a faulty variant of _some_field_refs: a field of any message is accepted
any_field_refs(h, table) ==
    IF table = <<>> THEN "HplSanityError"
    ELSE LET ref == h[table[1].refs[1]] IN
         IF is_accessor(ref) /\ is_field(ref) THEN "ok"
         ELSE any_field_refs(h, Tail(table))

RECURSIVE some_field_refs(_, _)
\* _some_field_refs: the first reference of each group decides for the group
some_field_refs(h, table) ==
    IF table = <<>> THEN "HplSanityError"
    ELSE LET ref == h[table[1].refs[1]] IN
         IF ~is_accessor(ref) THEN some_field_refs(h, Tail(table))
         ELSE IF is_indexed(ref) THEN some_field_refs(h, Tail(table))
         ELSE IF ~is_value(h[message(ref)]) THEN some_field_refs(h, Tail(table))
         ELSE IF ~is_reference(h[message(ref)]) THEN "AssertionError"
         ELSE IF ~is_this_msg(h[message(ref)]) THEN some_field_refs(h, Tail(table))
         ELSE "ok"

\* _static_checks
static_checks(h, expr) ==
    LET r == all_refs_same_type(h, ref_table(h, expr))
        e == some_field_refs(r.heap, ref_table(h, expr))
    IN IF r.err # "ok" THEN r ELSE R(r.heap, e, 0)

HplPredicate(h, expr) ==
    IF ~is_expression(h[expr]) THEN Raise(h, "TypeError")
    ELSE IF ~can_be(h, expr, T_BOOL) THEN Raise(h, "HplTypeError")
    ELSE LET r == static_checks(h, expr) IN
         IF r.err # "ok" THEN Raise(r.heap, r.err)
         ELSE Alloc(r.heap, Obj("HplPredicate", {}, "", <<expr>>))

HplVacuousTruth(h) == Alloc(h, Obj("HplVacuousTruth", {}, "", <<>>))
HplContradiction(h) == Alloc(h, Obj("HplContradiction", {}, "", <<>>))

\* negate() of the three predicate classes
negate(h, p) ==
    LET c == h[p].kids[1] IN
    CASE h[p].kind = "HplVacuousTruth" -> HplContradiction(h)
      [] h[p].kind = "HplContradiction" -> HplVacuousTruth(h)
      [] OTHER ->
            IF is_operator(h[c]) /\ h[c].name = "not"
            THEN HplPredicate(h, h[c].kids[1])
            ELSE LET r == HplUnaryOperator(h, "not", c) IN
                 IF r.err # "ok" THEN r ELSE HplPredicate(r.heap, r.id)

\* a faulty variant of join: a vacuous operand on the right is dropped, be it
\* true or false
join_self(h, p, other) ==
    CASE h[p].kind = "HplVacuousTruth" -> R(h, "ok", other)
      [] h[p].kind = "HplContradiction" -> R(h, "ok", p)
      [] OTHER ->
            IF is_vacuous(h[other])
            THEN R(h, "ok", p)
            ELSE LET r == HplBinaryOperator(h, "and", h[p].kids[1], h[other].kids[1]) IN
                 IF r.err # "ok" THEN r ELSE HplPredicate(r.heap, r.id)

\* join(other) of the three predicate classes
join(h, p, other) ==
    CASE h[p].kind = "HplVacuousTruth" -> R(h, "ok", other)
      [] h[p].kind = "HplContradiction" -> R(h, "ok", p)
      [] OTHER ->
            IF is_vacuous(h[other])
            THEN R(h, "ok", IF is_true(h[other]) THEN p ELSE other)
            ELSE LET r == HplBinaryOperator(h, "and", h[p].kids[1], h[other].kids[1]) IN
                 IF r.err # "ok" THEN r ELSE HplPredicate(r.heap, r.id)

RECURSIVE ReplaceLoop(_, _, _)
ReplaceLoop(h, ids, alias) ==
    IF ids = <<>> THEN R(h, "ok", 0)
    ELSE LET n == ids[1]
             o == h[n]
         IN
         IF /\ is_expression(o) /\ is_accessor(o) /\ is_field(o)
            /\ is_value(h[message(o)]) /\ is_variable(h[message(o)])
            /\ h[message(o)].name = alias
         THEN LET m == HplThisMessage(h)
                  h2 == [m.heap EXCEPT ![n].kids = <<m.id>>]
                  r == type_check(h2, m.id, T_MSG)
              IN IF r.err # "ok" THEN Raise(h2, r.err)
                 ELSE ReplaceLoop(r.heap, Tail(ids), alias)
         ELSE ReplaceLoop(h, Tail(ids), alias)

\* replace_self_reference(alias): a no-op on the vacuous predicates
replace_self_reference(h, p, alias) ==
    IF is_vacuous(h[p]) THEN R(h, "ok", 0)
    ELSE ReplaceLoop(h, iterate(h, p), alias)

-----------------------------------------------------------------------------
(* Events.                                                                 *)

PUBLISH == 1

HplSimpleEvent(h, event_type, predicate, topic, msg_type, alias) ==
    IF event_type # PUBLISH THEN Raise(h, "ValueError")
    ELSE IF ~is_predicate(h[predicate]) THEN Raise(h, "TypeError")
    ELSE LET r == IF alias \notin {None, ""}
                  THEN replace_self_reference(h, predicate, alias)
                  ELSE R(h, "ok", 0)
         IN IF r.err # "ok" THEN Raise(r.heap, r.err)
            ELSE Alloc(r.heap, [Obj("HplSimpleEvent", {}, topic, <<predicate>>)
                                EXCEPT !.aux = alias, !.ros = msg_type, !.num = event_type])

RECURSIVE aliases(_, _)
\* aliases(): a tuple, in leaf order
aliases(h, e) ==
    IF is_event_disjunction(h[e])
    THEN aliases(h, h[e].kids[1]) \o aliases(h, h[e].kids[2])
    ELSE IF h[e].aux = None THEN <<>> ELSE <<h[e].aux>>

\* a faulty variant of HplSimpleEvent.external_references: a variable that
\* carries a ROS type is no longer taken for a reference to another event
unrefined_external_references(h, e) ==
    {h[message(h[n])].name :
        n \in {i \in Range(iterate(h, h[e].kids[1])) :
                 /\ is_expression(h[i]) /\ is_accessor(h[i]) /\ is_field(h[i])
                 /\ is_value(h[message(h[i])]) /\ is_variable(h[message(h[i])])
                 /\ h[message(h[i])].ros = None}}
    \ {h[e].aux}

\* HplSimpleEvent.external_references
simple_external_references(h, e) ==
    {h[message(h[n])].name :
        n \in {i \in Range(iterate(h, h[e].kids[1])) :
                 /\ is_expression(h[i]) /\ is_accessor(h[i]) /\ is_field(h[i])
                 /\ is_value(h[message(h[i])]) /\ is_variable(h[message(h[i])])}}
    \ {h[e].aux}

RECURSIVE external_references(_, _)
external_references(h, e) ==
    IF is_event_disjunction(h[e])
    THEN external_references(h, h[e].kids[1]) \cup external_references(h, h[e].kids[2])
    ELSE simple_external_references(h, e)

RECURSIVE simple_events(_, _)
\* simple_events(): the leaves, left to right
simple_events(h, e) ==
    IF is_event_disjunction(h[e])
    THEN simple_events(h, h[e].kids[1]) \o simple_events(h, h[e].kids[2])
    ELSE <<e>>

RECURSIVE UniqueTopicsLoop(_, _, _)
UniqueTopicsLoop(h, pending, topics) ==
    IF pending = <<>> THEN "ok"
    ELSE LET event == pending[Len(pending)]
             rest == SubSeq(pending, 1, Len(pending) - 1)
         IN
         IF is_event_disjunction(h[event])
         THEN UniqueTopicsLoop(h, rest \o h[event].kids, topics)
         ELSE IF ~is_simple_event(h[event]) THEN "AssertionError"
         ELSE IF h[event].name \in topics THEN "HplSanityError"
         ELSE UniqueTopicsLoop(h, rest, topics \cup {h[event].name})

\* a faulty variant of _check_unique_topics: nested disjunctions are not entered
check_direct_topics(h, event1, event2) ==
    IF is_simple_event(h[event1]) /\ is_simple_event(h[event2])
       /\ h[event1].name = h[event2].name
    THEN "HplSanityError" ELSE "ok"

\* _check_unique_topics of a disjunction over event1 and event2
check_unique_topics(h, event1, event2) == UniqueTopicsLoop(h, <<event1, event2>>, {})

HplEventDisjunction(h, event1, event2) ==
    IF ~is_event(h[event1]) \/ ~is_event(h[event2]) THEN Raise(h, "TypeError")
    ELSE IF check_unique_topics(h, event1, event2) # "ok"
         THEN Raise(h, check_unique_topics(h, event1, event2))
         ELSE Alloc(h, Obj("HplEventDisjunction", {}, "", <<event1, event2>>))

-----------------------------------------------------------------------------
(* Scopes, patterns, properties.                                           *)

GLOBAL == 1
AFTER_UNTIL == 2
AFTER == 3
UNTIL == 4

EXISTENCE == 1
ABSENCE == 2
RESPONSE == 3
REQUIREMENT == 4
PREVENTION == 5

\* HplScope(scope, activator, terminator): 0 stands for None
HplScope(h, scope, activator, terminator) ==
    IF \/ scope = GLOBAL /\ (activator # 0 \/ terminator # 0)
       \/ scope = AFTER /\ terminator # 0
       \/ scope = UNTIL /\ activator # 0
       \/ scope \notin {GLOBAL, AFTER, UNTIL, AFTER_UNTIL}
    THEN Raise(h, "ValueError")
    ELSE Alloc(h, [Obj("HplScope", {}, "", <<activator, terminator>>) EXCEPT !.num = scope])

\* HplPattern(pattern, behaviour, trigger): 0 stands for None
HplPattern(h, pattern, behaviour, trigger) ==
    IF \/ pattern \in {EXISTENCE, ABSENCE} /\ trigger # 0
       \/ pattern \notin {EXISTENCE, ABSENCE, RESPONSE, REQUIREMENT, PREVENTION}
    THEN Raise(h, "ValueError")
    ELSE Alloc(h, [Obj("HplPattern", {}, "", <<behaviour, trigger>>) EXCEPT !.num = pattern])

HplProperty(h, scope, pattern) == Alloc(h, Obj("HplProperty", {}, "", <<scope, pattern>>))

activator(h, p) == h[h[p].kids[1]].kids[1]
terminator(h, p) == h[h[p].kids[1]].kids[2]
behaviour(h, p) == h[h[p].kids[2]].kids[1]
trigger(h, p) == h[h[p].kids[2]].kids[2]
pattern_type(h, p) == h[h[p].kids[2]].num

\* HplProperty.events(): activator, behaviour, trigger, terminator
events(h, p) == SelectIds(<<activator(h, p), behaviour(h, p), trigger(h, p), terminator(h, p)>>)

-----------------------------------------------------------------------------
(* HplProperty.sanity_check.  Each step yields its outcome and the aliases  *)
(* it returns.                                                             *)

UNDEFINED_ACTIVATOR == "references to undefined events: "
UNDEFINED == "reference to undefined event: "
DUPLICATE == "duplicate alias: "

Checked(e, m, als) == [err |-> e, msg |-> m, aliases |-> als]
Passed(als) == Checked("ok", "", als)
Failed(m) == Checked("HplSanityError", m, <<>>)

\* _check_refs_defined
check_refs_defined(refs, available) ==
    IF \E ref \in refs : ref \notin Range(available) THEN Failed(UNDEFINED) ELSE Passed(<<>>)

\* _check_duplicates
check_duplicates(als, available) ==
    IF \E i \in 1..Len(als) : als[i] \in Range(available)
    THEN Failed(DUPLICATE) ELSE Passed(<<>>)

\* _check_activator
check_activator(h, p) ==
    IF activator(h, p) = 0 THEN Passed(<<>>)
    ELSE IF external_references(h, activator(h, p)) # {} THEN Failed(UNDEFINED_ACTIVATOR)
    ELSE Passed(aliases(h, activator(h, p)))

\* the body shared by _check_trigger and _check_behaviour
check_event(h, e, available) ==
    IF check_refs_defined(external_references(h, e), available).err # "ok"
    THEN check_refs_defined(external_references(h, e), available)
    ELSE IF check_duplicates(aliases(h, e), available).err # "ok"
    THEN check_duplicates(aliases(h, e), available)
    ELSE Passed(aliases(h, e) \o available)

\* _check_trigger
check_trigger(h, p, available) ==
    IF trigger(h, p) = 0 THEN Checked("AssertionError", "", <<>>)
    ELSE check_event(h, trigger(h, p), available)

\* _check_behaviour
check_behaviour(h, p, available) == check_event(h, behaviour(h, p), available)

\* a faulty variant of _check_terminator: the aliases of the pattern's events
\* are available to the terminator too
check_terminator_late(h, p, available) ==
    LET all == available \o aliases(h, behaviour(h, p))
               \o (IF trigger(h, p) = 0 THEN <<>> ELSE aliases(h, trigger(h, p)))
    IN
    IF terminator(h, p) = 0 THEN Passed(<<>>)
    ELSE IF check_refs_defined(external_references(h, terminator(h, p)), all).err # "ok"
    THEN check_refs_defined(external_references(h, terminator(h, p)), all)
    ELSE check_duplicates(aliases(h, terminator(h, p)), available)

\* _check_terminator
check_terminator(h, p, available) ==
    IF terminator(h, p) = 0 THEN Passed(<<>>)
    ELSE IF check_refs_defined(external_references(h, terminator(h, p)), available).err # "ok"
    THEN check_refs_defined(external_references(h, terminator(h, p)), available)
    ELSE check_duplicates(aliases(h, terminator(h, p)), available)

\* a faulty variant of sanity_check: the behaviour is checked first whatever
\* the pattern
sanity_check_behaviour_first(h, p) ==
    LET initial == check_activator(h, p)
        first == check_behaviour(h, p, initial.aliases)
        second == check_trigger(h, p, first.aliases)
    IN
    IF initial.err # "ok" THEN initial
    ELSE IF first.err # "ok" THEN first
    ELSE IF pattern_type(h, p) \notin {ABSENCE, EXISTENCE} /\ second.err # "ok" THEN second
    ELSE check_terminator(h, p, initial.aliases)

\* sanity_check: the exception raised and its message, or "ok"
sanity_check(h, p) ==
    LET initial == check_activator(h, p)
        first == IF pattern_type(h, p) \in {RESPONSE, PREVENTION}
                 THEN check_trigger(h, p, initial.aliases)
                 ELSE check_behaviour(h, p, initial.aliases)
        second == IF pattern_type(h, p) \in {RESPONSE, PREVENTION}
                  THEN check_behaviour(h, p, first.aliases)
                  ELSE check_trigger(h, p, first.aliases)
    IN
    IF initial.err # "ok" THEN initial
    ELSE IF first.err # "ok" THEN first
    ELSE IF pattern_type(h, p) \notin {ABSENCE, EXISTENCE} /\ second.err # "ok" THEN second
    ELSE check_terminator(h, p, initial.aliases)

-----------------------------------------------------------------------------
(* Message schemas: the type tokens a schema registry hands to refinement. *)

RosTypes == {"uint8", "bool", "string", "uint8[2]", "pkg/A", "pkg/B", "pkg/C"}

is_message(t) == t \in {"pkg/A", "pkg/B", "pkg/C"}
is_array(t) == t = "uint8[2]"
is_number(t) == t = "uint8"
is_bool(t) == t = "bool"
is_string(t) == t = "string"

\* t.fields: field name -> type token
fields(t) ==
    CASE t = "pkg/A" -> [k |-> "uint8", a |-> "uint8[2]", x |-> "uint8"]
      [] t = "pkg/B" -> [x |-> "bool", k |-> "string", b |-> "pkg/A"]
      [] t = "pkg/C" -> [x |-> "uint8"]
      [] OTHER -> <<>>

\* t.constants: constant name -> the ros_type of its value
constants(t) ==
    CASE t = "pkg/A" -> [c |-> "uint8"]
      [] OTHER -> <<>>

\* t.type_token of an array: the type of its elements
type_token(t) == "uint8"

\* t.contains_index(i) of an array of two elements
contains_index(t, i) == i \in {0, 1}

-----------------------------------------------------------------------------
(* Type refinement.                                                        *)

RECURSIVE AccessorChain(_, _, _)
\* stack = [accessor]; while expr.is_accessor: stack.append(expr); expr = expr.message
AccessorChain(h, expr, stack) ==
    IF is_expression(h[expr]) /\ is_accessor(h[expr])
    THEN AccessorChain(h, message(h[expr]), Append(stack, expr))
    ELSE [stack |-> stack, base |-> expr]

\* the cast a type token asks of the accessor it types
TokenTypes(t) ==
    CASE is_message(t) -> T_MSG
      [] is_array(t) -> T_ARR
      [] is_number(t) -> T_NUM
      [] is_bool(t) -> T_BOOL
      [] is_string(t) -> T_STR
      [] OTHER -> T_ANY

RECURSIVE RefineChain(_, _, _)
\* the second loop of _refine_type: from the base outwards, t the parent's token
RefineChain(h, stack, t) ==
    IF stack = <<>> THEN R(h, "ok", 0)
    ELSE LET n == stack[Len(stack)]
             rest == SubSeq(stack, 1, Len(stack) - 1)
             expr == h[n]
             i == h[expr.kids[2]]
             bad ==
                IF is_field(expr)
                THEN IF ~(is_message(t) \/ expr.name \in DOMAIN fields(t)
                          \/ expr.name \in DOMAIN constants(t))
                     THEN "HplTypeError"
                     ELSE IF expr.name \notin DOMAIN fields(t)
                             /\ expr.name \notin DOMAIN constants(t)
                          THEN "AssertionError" ELSE "ok"
                ELSE IF ~is_array(t) THEN "HplTypeError"
                     ELSE IF is_value(i) /\ is_literal(i) /\ ~contains_index(t, i.num)
                          THEN "HplTypeError" ELSE "ok"
             t2 == IF is_field(expr)
                   THEN IF expr.name \in DOMAIN fields(t) THEN fields(t)[expr.name]
                        ELSE constants(t)[expr.name]
                   ELSE type_token(t)
             r == type_check(h, n, TokenTypes(t2))
         IN
         IF bad # "ok" THEN Raise(h, bad)
         ELSE IF r.err # "ok" THEN Raise(h, r.err)
         ELSE RefineChain([r.heap EXCEPT ![n].ros = t2], rest, t2)

\* a faulty variant of _refine_type: a variable base takes the schema of the
\* event's own topic
refine_type_own(h, accessor, rostype, als) ==
    LET c == AccessorChain(h, message(h[accessor]), <<accessor>>) IN
    IF ~(is_value(h[c.base]) /\ (is_this_msg(h[c.base]) \/ is_variable(h[c.base])))
    THEN Raise(h, "AssertionError")
    ELSE IF ~is_message(rostype) THEN Raise(h, "AssertionError")
    ELSE RefineChain([h EXCEPT ![c.base].ros = rostype], c.stack, rostype)

\* a faulty variant of _refine_type: a message that carries a ros_type
\* already is not typed again
refine_type_once(h, accessor, rostype, als) ==
    LET c == AccessorChain(h, message(h[accessor]), <<accessor>>)
        base == h[c.base]
        t == IF is_this_msg(base) THEN rostype ELSE als[base.name]
    IN
    IF base.ros # None THEN Raise(h, "HplTypeError")
    ELSE IF ~is_this_msg(base) /\ base.name \notin DOMAIN als
    THEN Raise(h, "HplSanityError")
    ELSE RefineChain([h EXCEPT ![c.base].ros = t], c.stack, t)

\* HplPredicate._refine_type(accessor, rostype, aliases)
refine_type(h, accessor, rostype, als) ==
    LET c == AccessorChain(h, message(h[accessor]), <<accessor>>)
        base == h[c.base]
        t == IF is_this_msg(base) THEN rostype ELSE als[base.name]
    IN
    IF ~(is_value(base) /\ (is_this_msg(base) \/ is_variable(base)))
    THEN Raise(h, "AssertionError")
    ELSE IF ~is_this_msg(base) /\ base.name \notin DOMAIN als
    THEN Raise(h, "HplSanityError")
    ELSE IF ~is_message(t) THEN Raise(h, "AssertionError")
    ELSE RefineChain([h EXCEPT ![c.base].ros = t], c.stack, t)

RECURSIVE RefineLoop(_, _, _, _)
\* the stack loop of HplPredicate.refine_types: accessors are refined, not entered
RefineLoop(h, stack, rostype, als) ==
    IF stack = <<>> THEN R(h, "ok", 0)
    ELSE LET obj == stack[Len(stack)]
             rest == SubSeq(stack, 1, Len(stack) - 1)
         IN
         IF is_accessor(h[obj])
         THEN LET r == refine_type(h, obj, rostype, als) IN
              IF r.err # "ok" THEN r ELSE RefineLoop(r.heap, rest, rostype, als)
         ELSE RefineLoop(h, rest \o Reverse(children(h, obj)), rostype, als)

\* refine_types of the three predicate classes
predicate_refine_types(h, p, rostype, als) ==
    IF is_vacuous(h[p]) THEN R(h, "ok", 0)
    ELSE RefineLoop(h, <<h[p].kids[1]>>, rostype, als)

\* HplSimpleEvent.refine_types
event_refine_types(h, e, rostype, als) ==
    IF h[e].ros # None
    THEN IF rostype = h[e].ros THEN R(h, "ok", 0) ELSE Raise(h, "HplTypeError")
    ELSE predicate_refine_types(h, h[e].kids[1], rostype, als)

RECURSIVE RefineEvents(_, _, _, _)
RefineEvents(h, es, rostypes, als) ==
    IF es = <<>> THEN R(h, "ok", 0)
    ELSE IF h[es[1]].name \notin DOMAIN rostypes THEN Raise(h, "HplTypeError")
    ELSE LET r == event_refine_types(h, es[1], rostypes[h[es[1]].name], als) IN
         IF r.err # "ok" THEN r ELSE RefineEvents(r.heap, Tail(es), rostypes, als)

RECURSIVE FlattenEvents(_, _)
FlattenEvents(h, es) ==
    IF es = <<>> THEN <<>> ELSE simple_events(h, es[1]) \o FlattenEvents(h, Tail(es))

\* HplProperty.refine_types(rostypes, aliases)
refine_types(h, p, rostypes, als) ==
    RefineEvents(h, FlattenEvents(h, events(h, p)), rostypes, als)

-----------------------------------------------------------------------------
(* Specifications, equality (__eq__) and hashing (__hash__).               *)

\* HplSpecification(props): the list is kept as it is given
HplSpecification(h, props) == Alloc(h, Obj("HplSpecification", {}, "", props))

\* a faulty variant of commutative: the operands of every operator are ordered
ordered(o) == FALSE

\* HplBinaryOperator.commutative: the fifth column of _OPS
commutative(o) == BinaryOps(o)[5]

\* HplRange.exclude_min / exclude_max, read off the flags
exclude_min(o) == o.aux \in {"![]", "![]!"}
exclude_max(o) == o.aux \in {"[]!", "![]!"}

RECURSIVE eq(_, _, _)
\* a == b for two slots of the tree below a specification; 0 stands for None,
\* which equals nothing but itself.  A pattern's time bounds are the
\* defaults throughout and compare equal.
eq(h, a, b) ==
    IF a = 0 \/ b = 0 THEN a = b
    ELSE LET x == h[a]
             y == h[b]
             k(i, j) == eq(h, x.kids[i], y.kids[j])
             tuples == /\ Len(x.kids) = Len(y.kids)
                       /\ \A i \in 1..Len(x.kids) : k(i, i)
         IN
         /\ x.kind = y.kind
         /\ CASE x.kind = "HplProperty" -> k(2, 2) /\ k(1, 1)
              [] x.kind \in {"HplScope", "HplPattern"} ->
                    x.num = y.num /\ k(1, 1) /\ k(2, 2)
              [] x.kind = "HplSimpleEvent" ->
                    x.num = y.num /\ k(1, 1) /\ x.name = y.name /\ x.ros = y.ros
              [] x.kind = "HplEventDisjunction" ->
                    (k(1, 1) /\ k(2, 2)) \/ (k(1, 2) /\ k(2, 1))
              [] x.kind = "HplPredicate" -> k(1, 1)
              [] x.kind \in {"HplVacuousTruth", "HplContradiction", "HplThisMessage"} -> TRUE
              [] x.kind = "HplQuantifier" ->
                    x.aux = y.aux /\ x.name = y.name /\ k(1, 1) /\ k(2, 2)
              [] x.kind = "HplUnaryOperator" -> x.name = y.name /\ k(1, 1)
              [] x.kind = "HplBinaryOperator" ->
                    /\ x.name = y.name
                    /\ IF commutative(x.name)
                       THEN (k(1, 1) /\ k(2, 2)) \/ (k(1, 2) /\ k(2, 1))
                       ELSE k(1, 1) /\ k(2, 2)
              [] x.kind = "HplFunctionCall" -> x.name = y.name /\ tuples
              [] x.kind = "HplFieldAccess" -> k(1, 1) /\ x.name = y.name
              [] x.kind = "HplArrayAccess" -> k(1, 1) /\ k(2, 2)
              [] x.kind = "HplSet" -> tuples
              [] x.kind = "HplRange" ->
                    /\ k(1, 1) /\ k(2, 2)
                    /\ exclude_min(x) = exclude_min(y)
                    /\ exclude_max(x) = exclude_max(y)
              [] x.kind \in {"HplLiteral", "HplVarReference"} -> x.name = y.name
              [] OTHER -> FALSE

\* Hash values are kept modulo a Mersenne prime, as CPython keeps them modulo
\* 2^61 - 1: reducing each sum as it is formed gives the number a reduction
\* of the whole sum gives.
HashModulus == 8191

\* 31 * a + b
Mix(a, b) == (31 * a + b) % HashModulus

\* the strings of the inputs, each with a code of its own
Strings ==
    << "+", "-", "*", "/", "**", "implies", "iff", "or", "and", "=", "!=", "<",
       "<=", ">", ">=", "in", "not", "forall", "exists",
       "abs", "len", "max", "yaw", "bool", "log",
       "0", "1", "9", "s", "true",
       "x", "y", "a", "b", "c", "k", "arr",
       "@m", "@n", "@p", "@z", "@i",
       "/a", "/b", "/c", "/d", "/e", "/f", "/g" >>

Code(s) == CHOOSE i \in 1..Len(Strings) : Strings[i] = s

\* hash() of a string and of None differ from one process to the next: the
\* salt stands for the process
Salts == {1, 89}

hash_str(salt, s) == (Code(s) * salt) % HashModulus
hash_none(salt) == (salt + 4001) % HashModulus
hash_bool(b) == IF b THEN 1 ELSE 0

\* hash(0.0) and hash(INF), a pattern's default time bounds
HashMinTime == 0
HashMaxTime == 314159 % HashModulus

RECURSIVE TupleHash(_, _)
\* hash() of a tuple: a function of the hashes of its items, in their order
TupleHash(hs, acc) == IF hs = <<>> THEN acc ELSE TupleHash(Tail(hs), Mix(acc, hs[1]))

\* what hash() yields where __hash__ raises (CPython keeps -1 for the error)
Unhashable == -1

RECURSIVE hash(_, _, _)
\* hash(n): __hash__ of each class; 0 stands for None
hash(h, salt, n) ==
    IF n = 0 THEN hash_none(salt)
    ELSE LET o == h[n]
             k(i) == hash(h, salt, o.kids[i])
             s(t) == hash_str(salt, t)
             items == [i \in 1..Len(o.kids) |-> k(i)]
         IN
         CASE o.kind = "HplSpecification" -> Unhashable
           [] o.kind = "HplProperty" -> Mix(k(1), k(2))
           [] o.kind = "HplScope" -> Mix(Mix(o.num % HashModulus, k(1)), k(2))
           [] o.kind = "HplPattern" ->
                 Mix(Mix(Mix(Mix(o.num % HashModulus, k(1)), k(2)), HashMinTime),
                     HashMaxTime)
           [] o.kind = "HplSimpleEvent" ->
                 Mix(Mix(o.num % HashModulus, k(1)), s(o.name))
           [] o.kind = "HplEventDisjunction" -> (31 * k(1) + 31 * k(2)) % HashModulus
           [] o.kind = "HplPredicate" -> k(1)
           [] o.kind = "HplVacuousTruth" -> 27644437 % HashModulus
           [] o.kind = "HplContradiction" -> 65537 % HashModulus
           [] o.kind = "HplQuantifier" -> Mix(Mix(Mix(s(o.aux), s("@" \o o.name)), k(1)), k(2))
           [] o.kind = "HplUnaryOperator" -> Mix(s(o.name), k(1))
           [] o.kind = "HplBinaryOperator" -> Mix(Mix(s(o.name), k(1)), k(2))
           [] o.kind = "HplFunctionCall" -> Mix(s(o.name), TupleHash(items, 1))
           [] o.kind = "HplFieldAccess" -> Mix(k(1), s(o.name))
           [] o.kind = "HplArrayAccess" -> Mix(k(1), k(2))
           [] o.kind = "HplSet" -> TupleHash(items, 11)
           [] o.kind = "HplRange" ->
                 Mix(Mix(Mix(k(1), k(2)), hash_bool(exclude_min(o))),
                     hash_bool(exclude_max(o)))
           [] o.kind = "HplLiteral" -> s(o.name)
           [] o.kind = "HplThisMessage" -> 433494437 % HashModulus
           [] o.kind = "HplVarReference" -> s("@" \o o.name)

\* x in a set: an item of the same hash that equals x
SetHas(h, salt, items, x) ==
    \E i \in 1..Len(items) :
        hash(h, salt, items[i]) = hash(h, salt, x) /\ eq(h, items[i], x)

RECURSIVE SetOf(_, _, _, _)
\* set(ns): the items in the order they are added, each once
SetOf(h, salt, ns, items) ==
    IF ns = <<>> THEN items
    ELSE SetOf(h, salt, Tail(ns),
               IF SetHas(h, salt, items, ns[1]) THEN items ELSE Append(items, ns[1]))

\* HplSpecification.__eq__: set(self.properties) == set(other.properties)
specification_eq(h, salt, a, b) ==
    LET x == SetOf(h, salt, h[a].kids, <<>>)
        y == SetOf(h, salt, h[b].kids, <<>>)
    IN
    /\ h[b].kind = "HplSpecification"
    /\ Len(x) = Len(y)
    /\ \A i \in 1..Len(x) : SetHas(h, salt, y, x[i])

-----------------------------------------------------------------------------
(* clone().                                                                *)

RECURSIVE Shape(_, _)
\* the tree below n without its identities, type sets and annotations
Shape(h, n) ==
    IF n = 0 THEN <<>>
    ELSE <<h[n].kind, h[n].name, h[n].aux, h[n].num,
           [i \in 1..Len(h[n].kids) |-> Shape(h, h[n].kids[i])]>>

RECURSIVE clone(_, _)
RECURSIVE CloneAll(_, _, _)
\* the clones of the slots ns, made left to right; None stays None
CloneAll(h, ns, ids) ==
    IF ns = <<>> THEN [heap |-> h, err |-> "ok", ids |-> ids]
    ELSE IF ns[1] = 0 THEN CloneAll(h, Tail(ns), Append(ids, 0))
    ELSE LET r == clone(h, ns[1]) IN
         IF r.err # "ok" THEN [heap |-> r.heap, err |-> r.err, ids |-> ids]
         ELSE CloneAll(r.heap, Tail(ns), Append(ids, r.id))

\* the fields clone() assigns to the object its constructor has made
Annotated(h, o, id) ==
    [h EXCEPT ![id].types = IF is_expression(o) THEN o.types ELSE @,
              ![id].ros = IF o.kind \in {"HplFieldAccess", "HplArrayAccess",
                                         "HplThisMessage", "HplVarReference",
                                         "HplSimpleEvent"}
                          THEN o.ros ELSE @]

\* clone() of each class: the slots are cloned, the constructor runs on the
\* clones, and the type set and the ros_type / msg_type are copied after it
clone(h, n) ==
    LET o == h[n]
        a == CloneAll(h, o.kids, <<>>)
        g == a.heap
        ids == a.ids
        r == CASE o.kind = "HplSpecification" -> HplSpecification(g, ids)
               [] o.kind = "HplProperty" -> HplProperty(g, ids[1], ids[2])
               [] o.kind = "HplScope" -> HplScope(g, o.num, ids[1], ids[2])
               [] o.kind = "HplPattern" -> HplPattern(g, o.num, ids[1], ids[2])
               [] o.kind = "HplSimpleEvent" ->
                     HplSimpleEvent(g, o.num, ids[1], o.name, None, o.aux)
               [] o.kind = "HplEventDisjunction" -> HplEventDisjunction(g, ids[1], ids[2])
               [] o.kind = "HplPredicate" -> HplPredicate(g, ids[1])
               [] o.kind = "HplVacuousTruth" -> HplVacuousTruth(g)
               [] o.kind = "HplContradiction" -> HplContradiction(g)
               [] o.kind = "HplQuantifier" ->
                     HplQuantifier(g, o.aux, o.name, ids[1], ids[2], TRUE)
               [] o.kind = "HplUnaryOperator" -> HplUnaryOperator(g, o.name, ids[1])
               [] o.kind = "HplBinaryOperator" ->
                     HplBinaryOperator(g, o.name, ids[1], ids[2])
               [] o.kind = "HplFunctionCall" -> HplFunctionCall(g, o.name, ids)
               [] o.kind = "HplFieldAccess" -> HplFieldAccess(g, ids[1], o.name)
               [] o.kind = "HplArrayAccess" -> HplArrayAccess(g, ids[1], ids[2])
               [] o.kind = "HplSet" -> HplSet(g, ids)
               [] o.kind = "HplRange" -> HplRange(g, ids[1], ids[2], o.aux)
               [] o.kind = "HplLiteral" -> HplLiteral(g, o.name, o.aux, o.num)
               [] o.kind = "HplThisMessage" -> HplThisMessage(g)
               [] o.kind = "HplVarReference" -> HplVarReference(g, o.name)
    IN
    IF a.err # "ok" THEN Raise(g, a.err)
    ELSE IF r.err # "ok" THEN r
    ELSE R(Annotated(r.heap, o, r.id), "ok", r.id)

-----------------------------------------------------------------------------
(* Inputs.  A term is what a parser has read; Build hands it, bottom-up and *)
(* left to right, to the constructors.                                     *)

Term(k, s, a, n, args) == [k |-> k, s |-> s, a |-> a, n |-> n, args |-> args]

TThis == Term("this", "", "", 0, <<>>)
TVar(v) == Term("var", v, "", 0, <<>>)
TNum(tok, n) == Term("lit", tok, "int", n, <<>>)
TStr(tok) == Term("lit", tok, "str", 0, <<>>)
TBool(tok) == Term("lit", tok, "bool", 0, <<>>)
TField(m, f) == Term("field", f, "", 0, <<m>>)
TOwn(f) == TField(TThis, f)
TIndex(a, i) == Term("index", "", "", 0, <<a, i>>)
TUn(o, a) == Term("unop", o, "", 0, <<a>>)
TBin(o, a, b) == Term("binop", o, "", 0, <<a, b>>)
TCall(f, args) == Term("call", f, "", 0, args)
TSet(vals) == Term("set", "", "", 0, vals)
TRange(lb, ub) == Term("range", "[]", "", 0, <<lb, ub>>)
TQuant(q, v, d, p) == Term("quant", v, q, 0, <<d, p>>)
TPred(e) == Term("pred", "", "", 0, <<e>>)
TTrue == Term("true", "", "", 0, <<>>)
TFalse == Term("false", "", "", 0, <<>>)
TEvent(topic, alias, p) == Term("event", topic, alias, 0, <<p>>)
TTyped(topic, msg_type, p) == Term("typed", topic, msg_type, 0, <<p>>)
TDisj(a, b) == Term("disj", "", "", 0, <<a, b>>)
TNone == Term("none", "", "", 0, <<>>)
TScope(s, a, t) == Term("scope", "", "", s, <<a, t>>)
TPattern(k, b, t) == Term("pattern", "", "", k, <<b, t>>)
TProperty(s, p) == Term("property", "", "", 0, <<s, p>>)
TSpecification(ps) == Term("specification", "", "", 0, ps)

RECURSIVE Build(_, _)
RECURSIVE BuildAll(_, _, _)
BuildAll(h, ts, ids) ==
    IF ts = <<>> THEN [heap |-> h, err |-> "ok", ids |-> ids]
    ELSE LET r == Build(h, ts[1]) IN
         IF r.err # "ok" THEN [heap |-> r.heap, err |-> r.err, ids |-> ids]
         ELSE BuildAll(r.heap, Tail(ts), Append(ids, r.id))

Build(h, t) ==
    LET a == BuildAll(h, t.args, <<>>)
        g == a.heap
        ids == a.ids
    IN
    IF a.err # "ok" THEN Raise(g, a.err)
    ELSE CASE t.k = "this" -> HplThisMessage(g)
           [] t.k = "var" -> HplVarReference(g, t.s)
           [] t.k = "lit" -> HplLiteral(g, t.s, t.a, t.n)
           [] t.k = "field" -> HplFieldAccess(g, ids[1], t.s)
           [] t.k = "index" -> HplArrayAccess(g, ids[1], ids[2])
           [] t.k = "unop" -> HplUnaryOperator(g, t.s, ids[1])
           [] t.k = "binop" -> HplBinaryOperator(g, t.s, ids[1], ids[2])
           [] t.k = "call" -> HplFunctionCall(g, t.s, ids)
           [] t.k = "set" -> HplSet(g, ids)
           [] t.k = "range" -> HplRange(g, ids[1], ids[2], t.s)
           [] t.k = "quant" -> HplQuantifier(g, t.a, t.s, ids[1], ids[2], FALSE)
           [] t.k = "pred" -> HplPredicate(g, ids[1])
           [] t.k = "true" -> HplVacuousTruth(g)
           [] t.k = "false" -> HplContradiction(g)
           [] t.k = "event" -> HplSimpleEvent(g, PUBLISH, ids[1], t.s, None, t.a)
           [] t.k = "typed" -> HplSimpleEvent(g, PUBLISH, ids[1], t.s, t.a, None)
           [] t.k = "disj" -> HplEventDisjunction(g, ids[1], ids[2])
           [] t.k = "none" -> R(g, "ok", 0)
           [] t.k = "scope" -> HplScope(g, t.n, ids[1], ids[2])
           [] t.k = "pattern" -> HplPattern(g, t.n, ids[1], ids[2])
           [] t.k = "property" -> HplProperty(g, ids[1], ids[2])
           [] t.k = "specification" -> HplSpecification(g, ids)

\* the objects that hold n in one of their slots
Parents(h, n) == {i \in 1..Len(h) : n \in Range(h[i].kids)}
IsRoot(h, n) == Parents(h, n) = {}
Ids(h) == 1..Len(h)

Did(name, id) == [name |-> name, id |-> id]

\* the value an operation returns: of the objects `of`, under the salt given
Value(of, salt, is) == [of |-> of, salt |-> salt, is |-> is]
NoValue == Value(<<>>, 0, None)

\* a step of a driver: the operation's outcome becomes the state
Apply(name, r) ==
    /\ heap' = r.heap
    /\ op' = Did(name, r.id)
    /\ err' = r.err
    /\ errmsg' = ""
    /\ steps' = steps + 1
    /\ ret' = NoValue
    /\ UNCHANGED <<prop, mode>>

\* the state once the terms ts are parsed
Start(m, ts) ==
    /\ heap = BuildAll(<<>>, ts, <<>>).heap
    /\ op = Did("init", 0)
    /\ err = "ok"
    /\ errmsg = ""
    /\ prop = 0
    /\ mode = m
    /\ steps = 0
    /\ ret = NoValue

-----------------------------------------------------------------------------
(* Driver "types": the type operations on one node, in any order.  A       *)
(* failed call does not end the run.                                       *)

TypeArgs ==
    {T_BOOL, T_NUM, T_STR, T_ARR, T_RAN, T_SET, T_MSG, T_PRIM, T_COMP, T_ROS, T_ITEM, T_ANY}

Leaves == {TThis, TVar("m"), TNum("1", 1), TStr("s"), TBool("true")}

TypeInputs == {<<t>> : t \in Leaves}

InitTypes == \E ts \in TypeInputs : Start("types", ts)

TypeStep(name, r) ==
    /\ heap' = r.heap
    /\ op' = Did(name, r.id)
    /\ err' = r.err
    /\ ret' = NoValue
    /\ UNCHANGED <<errmsg, prop, mode, steps>>

Cast ==
    /\ mode = "types"
    /\ \E n \in Ids(heap), t \in TypeArgs : TypeStep("cast", cast(heap, n, t))

AddType ==
    /\ mode = "types"
    /\ \E n \in Ids(heap), t \in TypeArgs : TypeStep("add_type", add_type(heap, n, t))

RemType ==
    /\ mode = "types"
    /\ \E n \in Ids(heap), t \in TypeArgs : TypeStep("rem_type", rem_type(heap, n, t))

NextTypes == Cast \/ AddType \/ RemType

SpecTypes == InitTypes /\ [][NextTypes]_vars

-----------------------------------------------------------------------------
(* Driver "pred": predicates and simple events over parsed conditions.  An *)
(* exception ends the run.                                                 *)

MaxSteps == 3

Conditions ==
    { TOwn("x"),
      TField(TOwn("a"), "b"),
      TIndex(TOwn("a"), TNum("0", 0)),
      TField(TVar("m"), "k"),
      TBin("=", TField(TVar("m"), "k"), TNum("1", 1)),
      TBin("=", TOwn("x"), TField(TVar("m"), "k")),
      TBin("=", TOwn("x"), TVar("m")),
      TBin(">", TOwn("x"), TNum("0", 0)),
      TUn("not", TOwn("x")),
      TBin("and", TBin("=", TOwn("x"), TNum("1", 1)), TBin("=", TOwn("x"), TStr("s"))),
      TBin("=", TNum("1", 1), TNum("1", 1)),
      TBin("+", TOwn("x"), TNum("1", 1)),
      TBin(">", TCall("yaw", <<TVar("m")>>), TOwn("x")),
      TBin("=", TIndex(TField(TVar("m"), "a"), TNum("0", 0)), TNum("1", 1)) }

\* second conditions, for join
Conjuncts == {TOwn("x"), TBin("=", TOwn("x"), TField(TVar("m"), "k"))}

PredAliases == {None, "m"}

PredInputs == {<<c>> : c \in Conditions} \cup (Conditions \X Conjuncts)

InitPred == \E ts \in PredInputs : Start("pred", ts)

Running(m) == mode = m /\ err = "ok" /\ steps < MaxSteps

NewPredicate ==
    /\ Running("pred")
    /\ \E e \in Ids(heap) :
        /\ is_expression(heap[e]) /\ IsRoot(heap, e)
        /\ Apply("HplPredicate", HplPredicate(heap, e))

NewVacuous ==
    /\ Running("pred")
    /\ \/ Apply("HplVacuousTruth", HplVacuousTruth(heap))
       \/ Apply("HplContradiction", HplContradiction(heap))

Negate ==
    /\ Running("pred")
    /\ \E p \in Ids(heap) :
        /\ is_predicate(heap[p])
        /\ Apply("negate", negate(heap, p))

Join ==
    /\ Running("pred")
    /\ \E p, q \in Ids(heap) :
        /\ is_predicate(heap[p]) /\ is_predicate(heap[q]) /\ p # q
        /\ Apply("join", join(heap, p, q))

NewSimpleEvent ==
    /\ Running("pred")
    /\ \E p \in Ids(heap), alias \in PredAliases :
        /\ is_predicate(heap[p]) /\ IsRoot(heap, p)
        /\ Apply("HplSimpleEvent", HplSimpleEvent(heap, PUBLISH, p, "/a", None, alias))

NextPred == NewPredicate \/ NewVacuous \/ Negate \/ Join \/ NewSimpleEvent

SpecPred == InitPred /\ [][NextPred]_vars

-----------------------------------------------------------------------------
(* Driver "expr": the expression constructors over parsed operands.        *)

MaxOps == 2

Operands ==
    { TOwn("x"), TVar("m"), TVar("i"), TNum("1", 1), TStr("s"), TBool("true"),
      TSet(<<TNum("1", 1), TStr("s")>>), TSet(<<>>), TRange(TNum("0", 0), TNum("9", 9)),
      TField(TVar("m"), "k"), TField(TVar("i"), "arr"), TBin(">", TVar("i"), TOwn("x")),
      TQuant("exists", "i", TRange(TNum("0", 0), TNum("9", 9)),
             TBin(">", TVar("i"), TOwn("x"))) }

QuantVars == {"i", "m"}

CallNames == {"abs", "len", "max", "yaw", "bool", "log", "nope"}

ExprInputs == {<<c>> : c \in Operands} \cup (Operands \X Operands)

InitExpr == \E ts \in ExprInputs : Start("expr", ts)

Building == mode = "expr" /\ err = "ok" /\ steps < MaxOps

Roots(h) == {n \in Ids(h) : is_expression(h[n]) /\ IsRoot(h, n)}

NewUnaryOperator ==
    /\ Building
    /\ \E o \in UnaryOperators, a \in Roots(heap) :
        Apply("HplUnaryOperator", HplUnaryOperator(heap, o, a))

NewBinaryOperator ==
    /\ Building
    /\ \E o \in BinaryOperators, a, b \in Roots(heap) :
        /\ a # b
        /\ Apply("HplBinaryOperator", HplBinaryOperator(heap, o, a, b))

NewFieldAccess ==
    /\ Building
    /\ \E a \in Roots(heap) : Apply("HplFieldAccess", HplFieldAccess(heap, a, "k"))

NewArrayAccess ==
    /\ Building
    /\ \E a, i \in Roots(heap) :
        /\ a # i
        /\ Apply("HplArrayAccess", HplArrayAccess(heap, a, i))

NewFunctionCall ==
    /\ Building
    /\ \E f \in CallNames, a, b \in Roots(heap) :
        \/ Apply("HplFunctionCall", HplFunctionCall(heap, f, <<a>>))
        \/ a # b /\ Apply("HplFunctionCall", HplFunctionCall(heap, f, <<a, b>>))

NewSet ==
    /\ Building
    /\ \E a, b \in Roots(heap) :
        \/ Apply("HplSet", HplSet(heap, <<a>>))
        \/ a # b /\ Apply("HplSet", HplSet(heap, <<a, b>>))

NewRange ==
    /\ Building
    /\ \E a, b \in Roots(heap) :
        /\ a # b
        /\ Apply("HplRange", HplRange(heap, a, b, "[]"))

NewQuantifier ==
    /\ Building
    /\ \E q \in {"forall", "exists"}, v \in QuantVars, d, p \in Roots(heap) :
        /\ d # p
        /\ LET r == HplQuantifier(heap, q, v, d, p, FALSE) IN
           /\ heap' = r.heap
           /\ op' = Did("HplQuantifier", r.id)
           /\ err' = r.err
           /\ errmsg' = quantifier_message(heap, v, d, p, FALSE)
           /\ steps' = steps + 1
           /\ ret' = NoValue
           /\ UNCHANGED <<prop, mode>>

NextExpr ==
    \/ NewUnaryOperator \/ NewBinaryOperator \/ NewFieldAccess \/ NewArrayAccess
    \/ NewFunctionCall \/ NewSet \/ NewRange \/ NewQuantifier

SpecExpr == InitExpr /\ [][NextExpr]_vars

\* the driver "expr" over the operands a function call tells apart: a field,
\* a message, a number, a string, a set and an array
CallOperands ==
    { TOwn("x"), TVar("m"), TNum("1", 1), TStr("s"),
      TSet(<<TNum("1", 1), TStr("s")>>), TField(TVar("i"), "arr") }

CallInputs == {<<c>> : c \in CallOperands} \cup (CallOperands \X CallOperands)

InitCall == \E ts \in CallInputs : Start("expr", ts)

SpecCall == InitCall /\ [][NextExpr]_vars

-----------------------------------------------------------------------------
(* Driver "event": disjunctions over simple events, nested either way.     *)

MaxEvents == 4

Topics == {"/a", "/b", "/c"}

RECURSIVE TopicEvents(_)
TopicEvents(ts) ==
    IF ts = <<>> THEN <<>> ELSE <<TEvent(ts[1], None, TTrue)>> \o TopicEvents(Tail(ts))

EventInputs == UNION {{TopicEvents(ts) : ts \in [1..k -> Topics]} : k \in 2..MaxEvents}

InitEvent == \E ts \in EventInputs : Start("event", ts)

NewDisjunction ==
    /\ mode = "event" /\ err = "ok"
    /\ \E a, b \in Ids(heap) :
        /\ a # b
        /\ is_event(heap[a]) /\ IsRoot(heap, a)
        /\ is_event(heap[b]) /\ IsRoot(heap, b)
        /\ Apply("HplEventDisjunction", HplEventDisjunction(heap, a, b))

NextEvent == NewDisjunction

SpecEvent == InitEvent /\ [][NextEvent]_vars

-----------------------------------------------------------------------------
(* Driver "prop": a property over parsed events, then its sanity check and *)
(* its type refinement.                                                    *)

MaxSlots == 3

XEqField(v) == TPred(TBin("=", TOwn("x"), TField(TVar(v), "k")))

PropEvents ==
    << TEvent("/a", "m", TTrue),
       TEvent("/b", None, XEqField("m")),
       TEvent("/c", None, XEqField("n")),
       TEvent("/d", "m", TPred(TBin(">", TOwn("x"), TNum("0", 0)))),
       TDisj(TEvent("/e", "p", TTrue), TEvent("/f", "p", TTrue)),
       TEvent("/g", None, TPred(TBin(">", TCall("yaw", <<TVar("z")>>), TOwn("x")))) >>

\* the chosen events, in the order of the catalogue
RECURSIVE Chosen(_, _)
Chosen(c, i) ==
    IF i > Len(PropEvents) THEN <<>>
    ELSE (IF i \in c THEN <<PropEvents[i]>> ELSE <<>>) \o Chosen(c, i + 1)

PropInputs ==
    {Chosen(c, 1) : c \in {d \in SUBSET (1..Len(PropEvents)) : d # {} /\ Cardinality(d) <= MaxSlots}}

InitProp == \E ts \in PropInputs : Start("prop", ts)

\* the drivers that build and analyse a property
PropModes == {"prop", "refine"}

RootEvents(h) == {n \in Ids(h) : is_event(h[n]) /\ IsRoot(h, n)}
OfKind(h, k) == {n \in Ids(h) : h[n].kind = k}

PropStep(name, r, m, p) ==
    /\ heap' = r.heap
    /\ op' = Did(name, r.id)
    /\ err' = r.err
    /\ errmsg' = m
    /\ prop' = p
    /\ ret' = NoValue
    /\ UNCHANGED <<mode, steps>>

NewScope ==
    /\ mode \in PropModes /\ err = "ok" /\ OfKind(heap, "HplScope") = {}
    /\ \E s \in {GLOBAL, AFTER_UNTIL, AFTER, UNTIL},
          a, t \in RootEvents(heap) \cup {0} :
        /\ a = 0 \/ a # t
        /\ PropStep("HplScope", HplScope(heap, s, a, t), "", prop)

NewPattern ==
    /\ mode \in PropModes /\ err = "ok" /\ OfKind(heap, "HplPattern") = {}
    /\ \E k \in {EXISTENCE, ABSENCE, RESPONSE, REQUIREMENT, PREVENTION},
          b \in RootEvents(heap), t \in RootEvents(heap) \cup {0} :
        /\ b # t
        /\ PropStep("HplPattern", HplPattern(heap, k, b, t), "", prop)

NewProperty ==
    /\ mode \in PropModes /\ err = "ok" /\ prop = 0
    /\ \E s \in OfKind(heap, "HplScope"), k \in OfKind(heap, "HplPattern") :
        PropStep("HplProperty", HplProperty(heap, s, k), "", HplProperty(heap, s, k).id)

SanityCheck ==
    /\ mode \in PropModes /\ err = "ok" /\ prop # 0
    /\ LET c == sanity_check(heap, prop) IN
       PropStep("sanity_check", R(heap, c.err, prop), c.msg, prop)

TopicTypes ==
    [t \in {"/a", "/b", "/c", "/d", "/e", "/f", "/g"} |->
        IF t \in {"/a", "/d", "/e", "/f"} THEN "pkg/A" ELSE "pkg/B"]

AliasTypes ==
    { <<>>, [v \in {"m"} |-> "pkg/A"],
      [v \in {"m", "n", "p"} |-> IF v = "n" THEN "pkg/B" ELSE "pkg/A"] }

\* every topic of the driver "refine" with the one schema t
AllTopics(t) == [topic \in {"/a", "/b", "/c", "/d", "/e", "/f", "/g"} |-> t]

\* the topic and alias maps a driver hands to refine_types
TopicMaps(m) ==
    IF m = "prop" THEN {TopicTypes, [t \in {"/a", "/b"} |-> TopicTypes[t]]}
    ELSE {AllTopics(t) : t \in {"pkg/A", "pkg/B", "pkg/C"}}

AliasMaps(m) == IF m = "prop" THEN AliasTypes ELSE {<<>>}

RefineTypes ==
    /\ mode \in PropModes /\ err = "ok" /\ prop # 0
    /\ \E ts \in TopicMaps(mode), als \in AliasMaps(mode) :
        LET r == refine_types(heap, prop, ts, als) IN
        PropStep("refine_types", R(r.heap, r.err, prop), "", prop)

NextProp == NewScope \/ NewPattern \/ NewProperty \/ SanityCheck \/ RefineTypes

SpecProp == InitProp /\ [][NextProp]_vars

-----------------------------------------------------------------------------
(* Driver "refine": the operations of the driver "prop" over events whose  *)
(* conditions put every case of the refinement to work, each topic with    *)
(* one schema after another.                                               *)

XPositive == TPred(TBin(">", TOwn("x"), TNum("0", 0)))

RefinedEvents ==
    << TEvent("/a", None, XPositive),
       TTyped("/b", "pkg/A", XPositive),
       TEvent("/c", None, TPred(TBin("=", TIndex(TOwn("a"), TOwn("k")), TNum("1", 1)))),
       TEvent("/d", None, TPred(TBin(">", TOwn("y"), TNum("0", 0)))),
       TEvent("/e", None, TPred(TBin(">", TField(TOwn("x"), "y"), TNum("0", 0)))),
       TEvent("/f", None, TPred(TBin(">", TOwn("c"), TNum("0", 0)))),
       TEvent("/g", None, TPred(TBin(">", TField(TOwn("b"), "k"), TNum("0", 0)))),
       TEvent("/a", None,
              TPred(TQuant("forall", "i", TRange(TNum("0", 0), TNum("9", 9)),
                           TBin(">", TOwn("x"), TVar("i"))))),
       TDisj(TEvent("/b", None, XPositive), TEvent("/c", None, TTrue)) >>

RefineInputs ==
    {<<RefinedEvents[i]>> : i \in 1..Len(RefinedEvents)}
    \cup {<<RefinedEvents[1], RefinedEvents[i]>> : i \in 2..3}

InitRefine == \E ts \in RefineInputs : Start("refine", ts)

SpecRefine == InitRefine /\ [][NextProp]_vars

-----------------------------------------------------------------------------
(* Driver "algebra": clone(), == and hash() over parsed expressions,       *)
(* events, properties and specifications; a clone or its original is then  *)
(* narrowed or refined.                                                    *)

MaxCopies == 2

Globally(e) == TProperty(TScope(GLOBAL, TNone, TNone), TPattern(EXISTENCE, e, TNone))

SumPositive(a, b) == TPred(TBin(">", TBin("+", TOwn(a), TOwn(b)), TNum("0", 0)))

\* the same operator over the same operands, in both orders
Swapped(o, a, b) == <<TBin(o, a, b), TBin(o, b, a)>>

Operators == UnaryOperators \cup BinaryOperators

AlgebraPairs ==
    {Swapped(o, TOwn("x"), TVar("m")) : o \in BinaryOperators}
    \cup {Swapped(o, TOwn("x"), TOwn("x")) : o \in BinaryOperators}
    \cup { Swapped("in", TOwn("x"), TSet(<<TNum("1", 1), TStr("s")>>)),
           <<TDisj(TEvent("/a", None, XPositive), TEvent("/b", None, TTrue)),
             TDisj(TEvent("/b", None, TTrue), TEvent("/a", None, XPositive))>>,
           <<TDisj(TEvent("/a", None, XPositive), TEvent("/b", None, TTrue)),
             TDisj(TEvent("/a", None, XPositive), TEvent("/c", None, TTrue))>>,
           <<TSpecification(<<Globally(TEvent("/a", None, XPositive)),
                              Globally(TEvent("/b", None, TTrue))>>),
             TSpecification(<<Globally(TEvent("/b", None, TTrue)),
                              Globally(TEvent("/a", None, XPositive))>>)>>,
           <<TSpecification(<<Globally(TEvent("/a", None, XPositive)),
                              Globally(TEvent("/a", None, XPositive))>>),
             TSpecification(<<Globally(TEvent("/a", None, XPositive))>>)>>,
           <<TSpecification(<<Globally(TEvent("/a", None, XPositive))>>),
             TSpecification(<<Globally(TEvent("/b", None, TTrue))>>)>>,
           <<TSpecification(<<Globally(TEvent("/a", None, SumPositive("x", "k")))>>),
             TSpecification(<<Globally(TEvent("/a", None, SumPositive("k", "x")))>>)>>,
           <<TSpecification(<<Globally(TDisj(TEvent("/a", None, XPositive),
                                             TEvent("/b", None, TTrue)))>>),
             TSpecification(<<Globally(TDisj(TEvent("/b", None, TTrue),
                                             TEvent("/a", None, XPositive)))>>)>> }

AlgebraSingles ==
    { TUn("not", TOwn("x")),
      TQuant("forall", "i", TRange(TNum("0", 0), TNum("9", 9)),
             TBin(">", TOwn("x"), TVar("i"))),
      TCall("max", <<TOwn("x"), TNum("1", 1)>>),
      TIndex(TOwn("a"), TNum("0", 0)),
      TBin("in", TOwn("x"), TRange(TNum("0", 0), TNum("9", 9))),
      TPred(TBin("=", TOwn("x"), TField(TVar("m"), "k"))),
      TEvent("/a", "m", TPred(TBin("and", TBin(">", TOwn("x"), TNum("0", 0)),
                                          TBin("=", TField(TVar("m"), "x"), TNum("1", 1))))),
      TEvent("/a", "m", TPred(TBin("and", TBin(">", TOwn("x"), TNum("0", 0)),
                                          TUn("not", TField(TVar("m"), "x"))))),
      TEvent("/a", "m", TPred(TBin(">", TField(TVar("m"), "x"), TOwn("k")))),
      TTyped("/b", "pkg/A", XPositive),
      TProperty(TScope(AFTER_UNTIL, TEvent("/a", "m", TTrue), TEvent("/b", None, TFalse)),
                TPattern(RESPONSE, TEvent("/c", None, XEqField("m")),
                         TEvent("/d", None, XPositive))) }

AlgebraInputs == AlgebraPairs \cup {<<t>> : t \in AlgebraSingles}

InitAlgebra == \E ts \in AlgebraInputs : Start("algebra", ts)

Copying == mode = "algebra" /\ err = "ok" /\ steps < MaxCopies

AllRoots(h) == {n \in Ids(h) : IsRoot(h, n)}

\* the roots made after n that equal n, node for node: its clones
Copies(h, n) == {c \in AllRoots(h) : c > n /\ Shape(h, c) = Shape(h, n)}

Clone ==
    /\ Copying
    /\ \E n \in AllRoots(heap) : Apply("clone", clone(heap, n))

\* cast() on a reference of a clone or of its original
Narrow ==
    /\ Copying /\ \E c \in Ids(heap) : Copies(heap, c) # {}
    /\ \E n \in Ids(heap), t \in {T_NUM, T_STR} :
        /\ is_accessor(heap[n]) \/ is_reference(heap[n])
        /\ Apply("cast", R(cast(heap, n, t).heap, cast(heap, n, t).err, n))

\* refine_types() of an event or of a property, every topic of one schema
Refine ==
    /\ Copying
    /\ \E n \in AllRoots(heap), t \in {"pkg/A", "pkg/C"} :
        /\ is_simple_event(heap[n]) \/ heap[n].kind = "HplProperty"
        /\ LET r == IF is_simple_event(heap[n])
                    THEN event_refine_types(heap, n, t, <<>>)
                    ELSE refine_types(heap, n, AllTopics(t), [v \in {"m"} |-> t])
           IN Apply("refine_types", R(r.heap, r.err, n))

\* a == b: __eq__ of the class of a
Equals(h, salt, a, b) ==
    IF h[a].kind = "HplSpecification" THEN specification_eq(h, salt, a, b)
    ELSE eq(h, a, b)

Observe(name, id, v, e) ==
    /\ op' = Did(name, id)
    /\ ret' = v
    /\ err' = e
    /\ UNCHANGED <<heap, errmsg, prop, mode, steps>>

\* == and hash() are applied to what a constructor, clone() or a narrowing
\* has left; they change nothing, so one application after another adds none
Observing == mode = "algebra" /\ err = "ok" /\ ret = NoValue

Equal ==
    /\ Observing
    /\ \E a, b \in AllRoots(heap), salt \in Salts :
        /\ a # b
        /\ Observe("eq", a, Value(<<a, b>>, salt, Equals(heap, salt, a, b)), "ok")

Hash ==
    /\ Observing
    /\ \E n \in AllRoots(heap), salt \in Salts :
        Observe("hash", n, Value(<<n>>, salt, hash(heap, salt, n)),
                IF hash(heap, salt, n) = Unhashable THEN "TypeError" ELSE "ok")

NextAlgebra == Clone \/ Narrow \/ Refine \/ Equal \/ Hash

SpecAlgebra == InitAlgebra /\ [][NextAlgebra]_vars

-----------------------------------------------------------------------------
(* The drivers that construct and analyse, together: a run is of one mode, *)
(* fixed by its initial state.  The driver "algebra", which copies and     *)
(* compares what they construct, runs on its own as SpecAlgebra.           *)

Modes == {"types", "pred", "expr", "event", "prop", "refine"}

Inputs(m) ==
    CASE m = "types" -> TypeInputs
      [] m = "pred" -> PredInputs
      [] m = "expr" -> ExprInputs
      [] m = "event" -> EventInputs
      [] m = "prop" -> PropInputs
      [] m = "refine" -> RefineInputs

Init == \E m \in Modes : \E ts \in Inputs(m) : Start(m, ts)

Next == NextTypes \/ NextPred \/ NextExpr \/ NextEvent \/ NextProp

Spec == Init /\ [][Next]_vars

-----------------------------------------------------------------------------
(* Properties.                                                             *)

\* the expression below e holds a field access applied directly to ThisMessage
HasOwnField(h, e) ==
    \E n \in Range(iterate(h, e)) :
        /\ is_accessor(h[n]) /\ is_field(h[n])
        /\ is_this_msg(h[message(h[n])])

\* the variable references below n
VarRefs(h, n) == {i \in Range(iterate(h, n)) : is_variable(h[i])}

\* C7: the type set of every expression node is non-empty in every state
\* reached by cast, add_type and rem_type calls, those that raise included.
\* rem_type assigns before it tests, so a failing rem_type leaves the node
\* with no type at all.
C7_TypesNonEmpty ==
    \A n \in Ids(heap) : is_expression(heap[n]) => heap[n].types # {}

C7_Emptied ==
    /\ op.name = "rem_type" /\ err = "HplTypeError"
    /\ \E n \in Ids(heap) : heap[n].types = {}

\* C9: a predicate over an expression with no field access applied directly
\* to ThisMessage is never constructed, and its construction raises the
\* sanity error once the expression has passed the checks that come first
\* (it can be boolean, and equal references agree on a type); an expression
\* with such a field access, at any depth of an accessor chain, never raises
\* the sanity error.  The predicates made by negate and join obey the same.
C9_OwnFieldRequired ==
    mode = "pred" =>
        /\ \A e \in Roots(heap) :
            LET r == HplPredicate(heap, e) IN
            /\ ~HasOwnField(heap, e) => r.err # "ok"
            /\ (/\ ~HasOwnField(heap, e)
                /\ can_be(heap, e, T_BOOL)
                /\ all_refs_same_type(heap, ref_table(heap, e)).err = "ok")
               => r.err = "HplSanityError"
            /\ HasOwnField(heap, e) => r.err # "HplSanityError"
        /\ \A p \in OfKind(heap, "HplPredicate") : HasOwnField(heap, heap[p].kids[1])
        /\ \A p \in OfKind(heap, "HplPredicate") :
            /\ negate(heap, p).err # "HplSanityError"
            /\ \A q \in OfKind(heap, "HplPredicate") :
                join(heap, p, q).err # "HplSanityError"
        /\ (op.name \in {"HplPredicate", "negate", "join"} /\ err = "HplSanityError")
            => \E e \in Roots(heap) : ~HasOwnField(heap, e)

C9_Rejected ==
    /\ mode = "pred" /\ op.name = "HplPredicate" /\ err = "HplSanityError"
    /\ \E e \in Roots(heap) : ~HasOwnField(heap, e) /\ str(heap, e) = "(@m.k = 1)"

\* C10: once a simple event with alias a is constructed, no variable
\* reference named a is left in its predicate, and a is not among the
\* event's external references.  Only the bases of field accesses are
\* rewritten, so a bare @a stays.
C10_NoSelfReference ==
    (mode = "pred" /\ op.name = "HplSimpleEvent" /\ err = "ok" /\ heap[op.id].aux # None)
        => /\ \A v \in VarRefs(heap, heap[op.id].kids[1]) : heap[v].name # heap[op.id].aux
           /\ heap[op.id].aux \notin external_references(heap, op.id)

C10_BareAliasKept ==
    /\ mode = "pred" /\ op.name = "HplSimpleEvent" /\ err = "ok"
    /\ \E v \in VarRefs(heap, heap[op.id].kids[1]) : heap[v].name = heap[op.id].aux

\* the topics of the simple events below e, one per leaf
LeafTopics(h, e) == [i \in 1..Len(simple_events(h, e)) |-> h[simple_events(h, e)[i]].name]

Distinct(s) == \A i, j \in 1..Len(s) : i # j => s[i] # s[j]

\* C6: the leaves of every constructed disjunction, whatever its nesting,
\* have pairwise distinct topics; constructing a disjunction over two events
\* raises the sanity error exactly when a topic occurs in two leaves.
C6_UniqueTopics ==
    mode = "event" =>
        /\ \A d \in OfKind(heap, "HplEventDisjunction") : Distinct(LeafTopics(heap, d))
        /\ \A a, b \in RootEvents(heap) :
            a # b =>
                (HplEventDisjunction(heap, a, b).err = "HplSanityError"
                    <=> ~Distinct(LeafTopics(heap, a) \o LeafTopics(heap, b)))
        /\ op.name = "HplEventDisjunction" => err \in {"ok", "HplSanityError"}

C6_NestedRejected ==
    /\ mode = "event" /\ op.name = "HplEventDisjunction" /\ err = "HplSanityError"
    /\ \E a, b \in RootEvents(heap) :
        /\ is_event_disjunction(heap[a]) /\ is_event_disjunction(heap[b])
        /\ Distinct(LeafTopics(heap, a)) /\ Distinct(LeafTopics(heap, b))
        /\ ~Distinct(LeafTopics(heap, a) \o LeafTopics(heap, b))
        /\ RootEvents(heap) = {a, b}

-----------------------------------------------------------------------------
(* Properties of the sanity check.                                         *)

AliasSet(h, e) == IF e = 0 THEN {} ELSE Range(aliases(h, e))
RefSet(h, e) == IF e = 0 THEN {} ELSE external_references(h, e)

\* a pattern that has the trigger its kind needs
WellFormed(h, p) ==
    pattern_type(h, p) \in {RESPONSE, REQUIREMENT, PREVENTION} => trigger(h, p) # 0

\* the alias-scope order: the primary event, then the dependent one
Primary(h, p) ==
    IF pattern_type(h, p) \in {RESPONSE, PREVENTION} THEN trigger(h, p) ELSE behaviour(h, p)

Dependent(h, p) ==
    IF pattern_type(h, p) \in {RESPONSE, PREVENTION} THEN behaviour(h, p)
    ELSE IF pattern_type(h, p) = REQUIREMENT THEN trigger(h, p)
    ELSE 0

\* some pattern event refers to an alias outside what the order allows it
OutOfScope(h, p) ==
    \/ ~(RefSet(h, Primary(h, p)) \subseteq AliasSet(h, activator(h, p)))
    \/ ~(RefSet(h, Dependent(h, p))
            \subseteq AliasSet(h, activator(h, p)) \cup AliasSet(h, Primary(h, p)))

SanityChecked == mode = "prop" /\ op.name = "sanity_check" /\ WellFormed(heap, prop)

\* C1: sanity_check follows the alias-scope order of the pattern kind.  An
\* external reference of a pattern event to an alias outside its allowed set
\* (activator aliases for the primary event; activator and primary aliases
\* for the dependent event; Requirement, Existence and Absence take the
\* behaviour as primary, Response and Prevention the trigger) makes the check
\* raise the sanity error, with the message 'reference to undefined event'
\* unless an earlier step (the activator's own references, a duplicate alias
\* of the primary event) has raised first; with every reference in its
\* allowed set, the message is never raised.
C1_AliasScopeOrder ==
    SanityChecked =>
        /\ OutOfScope(heap, prop) => err = "HplSanityError"
        /\ (/\ OutOfScope(heap, prop)
            /\ RefSet(heap, activator(heap, prop)) = {}
            /\ AliasSet(heap, Primary(heap, prop)) \cap AliasSet(heap, activator(heap, prop)) = {})
           => errmsg = UNDEFINED
        /\ (/\ ~OutOfScope(heap, prop)
            /\ RefSet(heap, terminator(heap, prop)) \subseteq AliasSet(heap, activator(heap, prop)))
           => errmsg # UNDEFINED

C1_ForwardReference ==
    /\ SanityChecked /\ pattern_type(heap, prop) = REQUIREMENT
    /\ activator(heap, prop) = 0 /\ terminator(heap, prop) = 0
    /\ RefSet(heap, behaviour(heap, prop)) \cap AliasSet(heap, trigger(heap, prop)) # {}
    /\ err = "HplSanityError" /\ errmsg = UNDEFINED

\* the aliases a variable of event e may name: those its place in the order
\* allows, and the alias of e itself
Visible(h, p, e) ==
    AliasSet(h, e) \cup
    (IF e = activator(h, p) THEN {}
     ELSE IF e = Dependent(h, p)
          THEN AliasSet(h, activator(h, p)) \cup AliasSet(h, Primary(h, p))
          ELSE AliasSet(h, activator(h, p)))

\* C2: after a successful sanity_check every variable reference of an event
\* predicate that no quantifier binds, the base of a field access or a bare
\* value alike, names an alias defined earlier in the alias-scope order.  The
\* check reads only the bases of field accesses, so a bare variable passes.
C2_ReferencesResolved ==
    (SanityChecked /\ err = "ok") =>
        \A e \in Range(events(heap, prop)) :
            \A v \in VarRefs(heap, e) :
                ~is_defined(heap[v]) => heap[v].name \in Visible(heap, prop, e)

C2_BareUndefined ==
    /\ SanityChecked /\ err = "ok"
    /\ \E v \in VarRefs(heap, behaviour(heap, prop)) :
        /\ Parents(heap, v) # {}
        /\ \A q \in Parents(heap, v) : ~is_accessor(heap[q])
        /\ \A e \in Range(events(heap, prop)) : heap[v].name \notin AliasSet(heap, e)

\* the aliases of all the simple events of the property, leaf by leaf
RECURSIVE AllAliases(_, _)
AllAliases(h, es) == IF es = <<>> THEN <<>> ELSE aliases(h, es[1]) \o AllAliases(h, Tail(es))

\* C3: after a successful sanity_check the aliases of all the simple events
\* of the property (activator, trigger, behaviour, terminator, both branches
\* of a disjunction) are pairwise distinct.  Aliases are compared only with
\* those of earlier events, and the terminator only with the activator's.
C3_AliasesDistinct ==
    (SanityChecked /\ err = "ok") => Distinct(AllAliases(heap, events(heap, prop)))

C3_DuplicateAccepted ==
    /\ SanityChecked /\ err = "ok"
    /\ ~Distinct(AllAliases(heap, events(heap, prop)))

\* C4: the terminator sees the activator's aliases only: when it refers to an
\* alias that the trigger or the behaviour defines and the activator does
\* not, sanity_check raises the sanity error, whatever the pattern kind.
C4_TerminatorScope ==
    SanityChecked =>
        ((RefSet(heap, terminator(heap, prop))
            \cap (AliasSet(heap, trigger(heap, prop)) \cup AliasSet(heap, behaviour(heap, prop))))
          \ AliasSet(heap, activator(heap, prop)) # {}
         => err = "HplSanityError")

C4_TerminatorRejected ==
    /\ SanityChecked /\ err = "HplSanityError" /\ errmsg = UNDEFINED
    /\ ~OutOfScope(heap, prop) /\ activator(heap, prop) = 0
    /\ RefSet(heap, terminator(heap, prop)) \cap AliasSet(heap, behaviour(heap, prop)) # {}

-----------------------------------------------------------------------------
(* Scenario S2 and the narrowing of types.                                 *)

\* the condition of scenario S2's behaviour, as printed
S2Condition == "(@m.k = 1)"

\* a Global Response property over /a as m { True } and /b { (x = @m.k) }:
\* scenario S2 with a field of the behaviour's own message in its predicate
IsS2(h, p) ==
    /\ p # 0
    /\ h[h[p].kids[1]].num = GLOBAL
    /\ pattern_type(h, p) = RESPONSE
    /\ trigger(h, p) # 0
    /\ is_simple_event(h[trigger(h, p)])
    /\ h[trigger(h, p)].name = "/a" /\ h[trigger(h, p)].aux = "m"
    /\ is_true(h[h[trigger(h, p)].kids[1]])
    /\ is_simple_event(h[behaviour(h, p)])
    /\ h[behaviour(h, p)].name = "/b" /\ h[behaviour(h, p)].aux = None
    /\ str(h, h[behaviour(h, p)].kids[1]) = "{ (x = @m.k) }"

\* the accessors printed as @m.k below the behaviour of p
AliasFields(h, p) ==
    {n \in Range(iterate(h, behaviour(h, p))) : is_accessor(h[n]) /\ str(h, n) = "@m.k"}

\* C5 (the original statement): the predicate of S2's behaviour, `@m.k = 1`,
\* can be constructed.
C5_S2Constructs ==
    (/\ mode = "pred" /\ op.name = "HplPredicate"
     /\ \A e \in Roots(heap) : str(heap, e) = S2Condition
     /\ OfKind(heap, "HplPredicate") = {})
        => err = "ok"

\* C5 (amended): the predicate of S2's behaviour is rejected at construction
\* with the sanity error, as it holds no field of its own message; with one
\* added (`x = @m.k`) the property passes sanity_check, and refinement with
\* the alias m bound to the schema of /a types @m.k by the field k of that
\* schema, while refinement without that binding raises the sanity error.
C5_S2Amended ==
    /\ mode = "pred" =>
        /\ \A e \in Roots(heap) :
            str(heap, e) = S2Condition => HplPredicate(heap, e).err = "HplSanityError"
        /\ \A p \in OfKind(heap, "HplPredicate") : str(heap, heap[p].kids[1]) # S2Condition
    /\ (mode = "prop" /\ IsS2(heap, prop)) =>
        /\ sanity_check(heap, prop).err = "ok"
        /\ op.name = "sanity_check" => err = "ok"
        /\ op.name = "HplProperty" =>
            /\ \A als \in AliasTypes :
                LET r == refine_types(heap, prop, TopicTypes, als) IN
                IF "m" \in DOMAIN als
                THEN /\ r.err = "ok"
                     /\ \A n \in AliasFields(heap, prop) :
                         /\ r.heap[n].ros = fields(TopicTypes["/a"]).k
                         /\ r.heap[n].types = T_NUM
                         /\ r.heap[message(heap[n])].ros = TopicTypes["/a"]
                ELSE r.err = "HplSanityError"
        /\ (op.name = "refine_types" /\ err = "ok") =>
            \A n \in AliasFields(heap, prop) :
                heap[n].ros = fields(TopicTypes["/a"]).k /\ heap[n].types = T_NUM

C5_S2Refined ==
    /\ mode = "prop" /\ IsS2(heap, prop)
    /\ op.name = "refine_types" /\ err = "ok"
    /\ \E n \in AliasFields(heap, prop) : heap[n].ros = "uint8" /\ heap[n].types = T_NUM

\* C8: once a node is constructed, no later step of the pipeline (the
\* construction of an enclosing node, the checks of a predicate, the
\* construction of a simple event, sanity_check, refine_types, a cast) widens
\* its type set: it stays a subset of what it was; a cast that raises
\* changes nothing at all.  add_type and rem_type are not pipeline steps.
C8_MonotoneNarrowing ==
    [][op'.name \notin {"add_type", "rem_type"} =>
        /\ Len(heap') >= Len(heap)
        /\ \A n \in Ids(heap) :
            is_expression(heap[n]) => heap'[n].types \subseteq heap[n].types
        /\ (op'.name = "cast" /\ err' # "ok") => heap' = heap]_vars

C8_Narrowed ==
    /\ mode = "expr" /\ op.name = "HplBinaryOperator" /\ err = "ok"
    /\ \E n \in Range(heap[op.id].kids) :
        is_variable(heap[n]) /\ heap[n].types = T_NUM

-----------------------------------------------------------------------------
(* Equality and inequality.                                                *)

EqualityOperators == {"=", "!="}

\* C11: constructing `=` or `!=` over a variable reference whose type set is
\* Item and a number literal narrows the variable to exactly Number.  The
\* constructor casts each operand to Primitive on its own, so the variable
\* is left with Boolean, Number and String.
C11_EqualityNarrows ==
    (mode = "expr" /\ err = "ok") =>
        /\ \A o \in EqualityOperators, a, b \in Roots(heap) :
            (/\ a # b
             /\ is_variable(heap[a]) /\ heap[a].types = T_ITEM
             /\ is_literal(heap[b]) /\ heap[b].types = T_NUM)
            => HplBinaryOperator(heap, o, a, b).heap[a].types = T_NUM
        /\ (/\ op.name = "HplBinaryOperator"
            /\ heap[op.id].name \in EqualityOperators
            /\ is_variable(heap[heap[op.id].kids[1]])
            /\ is_literal(heap[heap[op.id].kids[2]])
            /\ heap[heap[op.id].kids[2]].types = T_NUM)
           => heap[heap[op.id].kids[1]].types = T_NUM

C11_StaysPrimitive ==
    /\ mode = "expr" /\ op.name = "HplBinaryOperator" /\ err = "ok"
    /\ heap[op.id].name \in EqualityOperators
    /\ is_variable(heap[heap[op.id].kids[1]])
    /\ heap[heap[op.id].kids[1]].types = T_PRIM
    /\ is_literal(heap[heap[op.id].kids[2]])
    /\ heap[heap[op.id].kids[2]].types = T_NUM

\* C12: constructing `=` or `!=` over two operands whose type sets are
\* disjoint (a number literal and a string literal) raises the type error,
\* so the operands of a constructed `=` or `!=` share a type.  Nothing
\* compares the operands with each other, so the construction succeeds.
C12_IncompatibleRejected ==
    (mode = "expr" /\ err = "ok") =>
        /\ \A o \in EqualityOperators, a, b \in Roots(heap) :
            (/\ a # b
             /\ heap[a].types \subseteq T_PRIM /\ heap[b].types \subseteq T_PRIM
             /\ heap[a].types \cap heap[b].types = {})
            => HplBinaryOperator(heap, o, a, b).err = "HplTypeError"
        /\ (op.name = "HplBinaryOperator" /\ heap[op.id].name \in EqualityOperators)
           => heap[heap[op.id].kids[1]].types \cap heap[heap[op.id].kids[2]].types # {}

C12_MixedAccepted ==
    /\ mode = "expr" /\ op.name = "HplBinaryOperator" /\ err = "ok"
    /\ heap[op.id].name \in EqualityOperators
    /\ is_literal(heap[heap[op.id].kids[1]]) /\ heap[heap[op.id].kids[1]].types = T_NUM
    /\ is_literal(heap[heap[op.id].kids[2]]) /\ heap[heap[op.id].kids[2]].types = T_STR

-----------------------------------------------------------------------------
(* Patterns.                                                               *)

PatternKinds == {EXISTENCE, ABSENCE, RESPONSE, REQUIREMENT, PREVENTION}

\* the kinds whose pattern has a trigger
TriggerKinds == {RESPONSE, REQUIREMENT, PREVENTION}

\* C13: every constructed pattern has a trigger if and only if its kind is
\* Response, Requirement or Prevention: the constructor raises on an
\* Existence or Absence pattern given a trigger and on a Response,
\* Requirement or Prevention pattern given none.  The constructor tests the
\* trigger of Existence and Absence only, so the latter are constructed.
C13_TriggerIffKind ==
    mode = "prop" =>
        /\ \A n \in OfKind(heap, "HplPattern") :
            heap[n].kids[2] # 0 <=> heap[n].num \in TriggerKinds
        /\ \A k \in PatternKinds, b \in RootEvents(heap), t \in RootEvents(heap) \cup {0} :
            (b # t /\ ~(t # 0 <=> k \in TriggerKinds))
            => HplPattern(heap, k, b, t).err = "ValueError"

C13_TriggerMissing ==
    /\ mode = "prop" /\ op.name = "HplPattern" /\ err = "ok"
    /\ heap[op.id].num \in TriggerKinds
    /\ heap[op.id].kids[2] = 0

-----------------------------------------------------------------------------
(* Quantifiers.                                                            *)

\* the variable references named v below n
Named(h, n, v) == {i \in VarRefs(h, n) : h[i].name = v}

\* the quantifier HplQuantifier would make of v, d and p
Quantified(h, v, d, p, shadow) == HplQuantifier(h, "forall", v, d, p, shadow)

\* C14: no constructed quantifier has, at any depth of its domain, a
\* variable reference named as its own variable: constructing a quantifier
\* over such a domain always fails, and the failure is the sanity error
\* 'cannot reference quantified variable in the domain' once the checks that
\* come first have passed (the domain can be composite, the body boolean,
\* and no variable met earlier in the domain is bound by a quantifier).
C14_DomainSelfReference ==
    mode = "expr" =>
        /\ \A q \in OfKind(heap, "HplQuantifier") :
            Named(heap, heap[q].kids[1], heap[q].name) = {}
        /\ err = "ok" =>
            \A v \in QuantVars, d, p \in Roots(heap), shadow \in BOOLEAN :
                (d # p /\ Named(heap, d, v) # {}) =>
                    /\ Quantified(heap, v, d, p, shadow).err # "ok"
                    /\ (/\ can_be(heap, d, T_COMP) /\ can_be(heap, p, T_BOOL)
                        /\ \A i \in VarRefs(heap, d) : ~is_defined(heap[i]))
                       => /\ Quantified(heap, v, d, p, shadow).err = "HplSanityError"
                          /\ quantifier_message(heap, v, d, p, shadow) = SET_REF
        /\ (op.name = "HplQuantifier" /\ errmsg = SET_REF) =>
            /\ err = "HplSanityError"
            /\ \E v \in QuantVars, d \in Roots(heap) : Named(heap, d, v) # {}

\* `forall i in @i.arr: (@i > x)` is rejected for its domain
C14_DomainRejected ==
    /\ mode = "expr" /\ op.name = "HplQuantifier"
    /\ err = "HplSanityError" /\ errmsg = SET_REF
    /\ \E d, p \in Roots(heap) :
        /\ Roots(heap) = {d, p}
        /\ str(heap, d) = "@i.arr" /\ str(heap, p) = "(@i > x)"

\* the occurrences of v below n, in the order iterate() meets them
Occurrences(h, n, v) ==
    SelectSeq(iterate(h, n), LAMBDA i : is_variable(h[i]) /\ h[i].name = v)

\* the checks of HplQuantifier that come before the body is read
BodyReached(h, v, d, p) ==
    /\ can_be(h, d, T_COMP) /\ can_be(h, p, T_BOOL)
    /\ check_domain_vars(h, v, d).err = "ok"

\* C15: the variable of every constructed quantifier occurs in its body, and
\* every occurrence of that name in the body carries the identity of this
\* quantifier as its definition site, with or without the shadow flag.
\* Once the body is reached, a variable that never occurs in it raises the
\* sanity error 'never used'; without the shadow flag an occurrence already
\* bound by another quantifier makes the construction fail, with the sanity
\* error 'multiple definitions' when it is the first occurrence met.
C15_BoundInBody ==
    mode = "expr" =>
        /\ \A q \in OfKind(heap, "HplQuantifier") :
            /\ Named(heap, heap[q].kids[2], heap[q].name) # {}
            /\ \A i \in Named(heap, heap[q].kids[2], heap[q].name) : heap[i].defined_at = q
        /\ err = "ok" =>
            \A v \in QuantVars, d, p \in Roots(heap), shadow \in BOOLEAN :
                d # p =>
                    LET r == Quantified(heap, v, d, p, shadow)
                        occ == Occurrences(heap, p, v)
                    IN
                    /\ r.err = "ok" =>
                        /\ Named(r.heap, p, v) # {}
                        /\ \A i \in Named(r.heap, p, v) : r.heap[i].defined_at = r.id
                    /\ (BodyReached(heap, v, d, p) /\ occ = <<>>) =>
                        /\ r.err = "HplSanityError"
                        /\ quantifier_message(heap, v, d, p, shadow) = UNUSED
                    /\ (~shadow /\ \E i \in Range(occ) : is_defined(heap[i])) => r.err # "ok"
                    /\ (~shadow /\ BodyReached(heap, v, d, p)
                        /\ occ # <<>> /\ is_defined(heap[occ[1]])) =>
                        /\ r.err = "HplSanityError"
                        /\ quantifier_message(heap, v, d, p, shadow) = MULTI_DEF
        /\ (op.name = "HplQuantifier" /\ errmsg \in {UNUSED, MULTI_DEF}) => err = "HplSanityError"

\* a quantifier over i around `exists i in [0 to 9]: (@i > x)` is rejected
C15_NestedRejected ==
    /\ mode = "expr" /\ op.name = "HplQuantifier"
    /\ err = "HplSanityError" /\ errmsg = MULTI_DEF
    /\ \E p \in Roots(heap) :
        /\ is_quantifier(heap[p]) /\ heap[p].name = "i"
        /\ \A i \in Named(heap, p, "i") : heap[i].defined_at = p

-----------------------------------------------------------------------------
(* Properties of the type refinement.                                      *)

MessageTypes == {t \in RosTypes : is_message(t)}

\* the simple events of the property p
PropertyEvents(h, p) == Range(FlattenEvents(h, events(h, p)))

\* refine_types of the property under analysis, every topic with schema t
Refined(h, t) == refine_types(h, prop, AllTopics(t), <<>>)

\* C16: once the events of a property carry a message type, given at
\* construction or resolved by a successful refinement, a refinement with a
\* different message type raises the type error and changes nothing, so an
\* assigned ros_type is never replaced.  Refinement never records the type
\* it resolved on the event, so a second refinement with another schema
\* runs again and annotates the predicate anew.
C16_TypeAssignedOnce ==
    (mode = "refine" /\ err = "ok" /\ prop # 0) =>
        \A t1, t2 \in MessageTypes :
            (t1 # t2 /\ Refined(heap, t1).err = "ok") =>
                /\ Refined(Refined(heap, t1).heap, t2).err = "HplTypeError"
                /\ Refined(Refined(heap, t1).heap, t2).heap = Refined(heap, t1).heap

\* after a successful refinement that resolved pkg/A for an event with no
\* message type of its own, a refinement with pkg/C succeeds and replaces
\* the ros_type of the message
C16_TypeReplaced ==
    /\ mode = "refine" /\ op.name = "refine_types" /\ err = "ok"
    /\ \A e \in PropertyEvents(heap, prop) : heap[e].ros = None
    /\ \E n \in Ids(heap) : is_this_msg(heap[n]) /\ heap[n].ros = "pkg/A"
    /\ Refined(heap, "pkg/C").err = "ok"
    /\ \E n \in Ids(heap) :
        heap[n].ros = "pkg/A" /\ Refined(heap, "pkg/C").heap[n].ros = "pkg/C"

\* the accessors of the events of the property p
Accessors(h, p) ==
    UNION {{n \in Range(iterate(h, e)) : is_accessor(h[n])} : e \in PropertyEvents(h, p)}

\* C17: refinement is idempotent.  Whenever refine_types succeeds on a
\* property, on a fresh tree or on one refined before, a second call with
\* the same topic and alias maps raises nothing and leaves every object
\* (type sets, ros_type annotations, message types) as the first call left it.
C17_RefineIdempotent ==
    (mode \in PropModes /\ err = "ok" /\ prop # 0) =>
        \A ts \in TopicMaps(mode), als \in AliasMaps(mode) :
            LET first == refine_types(heap, prop, ts, als) IN
            first.err = "ok" =>
                /\ refine_types(first.heap, prop, ts, als).err = "ok"
                /\ refine_types(first.heap, prop, ts, als).heap = first.heap

\* a refined property with a typed accessor on which a second pass with
\* some maps changes nothing
C17_SecondPass ==
    /\ mode \in PropModes /\ op.name = "refine_types" /\ err = "ok"
    /\ \E n \in Accessors(heap, prop) : heap[n].ros # None
    /\ \E ts \in TopicMaps(mode), als \in AliasMaps(mode) :
        /\ refine_types(heap, prop, ts, als).err = "ok"
        /\ refine_types(heap, prop, ts, als).heap = heap

\* the field accesses of p applied directly to the event's own message
OwnFields(h, p) ==
    {n \in Accessors(h, p) : is_field(h[n]) /\ is_this_msg(h[message(h[n])])}

\* the names a message schema t gives: its fields and its constants
Members(t) == DOMAIN fields(t) \cup DOMAIN constants(t)

Untyped(h, p) == \A e \in PropertyEvents(h, p) : h[e].ros = None

\* C18: refinement rejects with the type error, and with no other failure,
\* a field access on a message whose schema has neither a field nor a
\* constant of that name, and a field access on a parent whose schema type
\* is not a message.  For a message the test of the field is skipped, and
\* the missing name trips the assertion that follows it.
C18_UnknownFieldTypeError ==
    (mode = "refine" /\ err = "ok" /\ prop # 0 /\ Untyped(heap, prop)) =>
        \A t \in MessageTypes :
            /\ (\E n \in OwnFields(heap, prop) : heap[n].name \notin Members(t))
               => Refined(heap, t).err = "HplTypeError"
            /\ (\E n \in Accessors(heap, prop) :
                    /\ is_field(heap[n])
                    /\ heap[message(heap[n])].name \in DOMAIN fields(t)
                    /\ message(heap[n]) \in OwnFields(heap, prop)
                    /\ ~is_message(fields(t)[heap[message(heap[n])].name]))
               => Refined(heap, t).err = "HplTypeError"
            /\ Refined(heap, t).err \in {"ok", "HplTypeError"}

\* refining `y > 0` against a message with no member y ends in the assertion
C18_UnknownFieldCrashes ==
    /\ mode = "refine" /\ op.name = "refine_types" /\ err = "AssertionError"
    /\ \E n \in OwnFields(heap, prop) :
        heap[n].name = "y" /\ \A t \in MessageTypes : "y" \notin Members(t)

\* C19: after refine_types succeeds on a property, every accessor in the
\* predicate of every simple event has its ros_type assigned and its type
\* set narrowed to the kind of that schema type, the accessors inside an
\* array index and those of events constructed with a message type
\* included.  Refinement follows an accessor down its message chain only,
\* never into an index, and skips an event that has a message type.
C19_AccessorsTyped ==
    (mode = "refine" /\ op.name = "refine_types" /\ err = "ok") =>
        \A n \in Accessors(heap, prop) :
            /\ heap[n].ros # None
            /\ heap[n].types = TokenTypes(heap[n].ros)

\* `a[k] = 1` refined: the array access is typed, its index k is not
C19_IndexUntyped ==
    /\ mode = "refine" /\ op.name = "refine_types" /\ err = "ok"
    /\ \E n \in Accessors(heap, prop) :
        /\ is_indexed(heap[n]) /\ heap[n].ros = "uint8" /\ heap[n].types = T_NUM
        /\ is_accessor(heap[heap[n].kids[2]])
        /\ heap[heap[n].kids[2]].ros = None

-----------------------------------------------------------------------------
(* Iteration.                                                              *)

RECURSIVE PreOrder(_, _)
RECURSIVE PreOrderAll(_, _)
\* the pre-order walk of the tree below n: n, then the walk of each child in
\* the order of children()
PreOrder(h, n) == <<n>> \o PreOrderAll(h, children(h, n))

PreOrderAll(h, ns) ==
    IF ns = <<>> THEN <<>> ELSE PreOrder(h, ns[1]) \o PreOrderAll(h, Tail(ns))

RECURSIVE Below(_, _)
\* n and its descendants
Below(h, n) == {n} \cup UNION {Below(h, c) : c \in Range(children(h, n))}

\* no object below n is held twice: a tree without shared nodes
IsTree(h, n) ==
    LET below == Below(h, n) IN
    /\ \A q \in below : Distinct(children(h, q))
    /\ \A m \in below : Cardinality({q \in below : m \in Range(children(h, q))}) <= 1

\* the place of m in the sequence s
Place(s, m) == CHOOSE i \in 1..Len(s) : s[i] = m

\* C20: on every object n, iterate() ends and yields n first, then the
\* objects below n in pre-order, the children of each object in the order
\* of children(): the trigger of a pattern before its behaviour, the domain
\* of a quantifier before its body, the array of an array access before its
\* index.  On a tree without shared nodes every object below n is yielded
\* exactly once.
C20_IteratePreOrder ==
    \A n \in Ids(heap) :
        LET it == iterate(heap, n) IN
        /\ Len(it) >= 1 /\ it[1] = n
        /\ it = PreOrder(heap, n)
        /\ IsTree(heap, n) => (Distinct(it) /\ Range(it) = Below(heap, n))
        /\ (heap[n].kind = "HplPattern" /\ heap[n].kids[2] # 0)
            => Place(it, heap[n].kids[2]) < Place(it, heap[n].kids[1])
        /\ heap[n].kind \in {"HplQuantifier", "HplArrayAccess"}
            => Place(it, heap[n].kids[1]) < Place(it, heap[n].kids[2])

\* a property whose pattern has a trigger and whose events hold conditions:
\* the walk of the property is a tree walk with the trigger first
C20_TriggerFirst ==
    /\ prop # 0 /\ trigger(heap, prop) # 0
    /\ IsTree(heap, prop)
    /\ Len(iterate(heap, prop)) >= 10
    /\ Place(iterate(heap, prop), trigger(heap, prop))
        < Place(iterate(heap, prop), behaviour(heap, prop))

-----------------------------------------------------------------------------
(* Cloning, equality and hashing.                                          *)

\* the nodes below a and below b, taken in the order of iterate(), carry the
\* same type sets and the same ros_type / msg_type
SameAnnotations(h, a, b) ==
    LET s == iterate(h, a)
        t == iterate(h, b)
    IN
    /\ Len(s) = Len(t)
    /\ \A i \in 1..Len(s) :
        h[s[i]].types = h[t[i]].types /\ h[s[i]].ros = h[t[i]].ros

\* clone(n) succeeds, equals n, is annotated as n is, shares no node with n
\* and leaves every object there was as it was
Faithful(h, salt, n) ==
    LET r == clone(h, n) IN
    /\ r.err = "ok"
    /\ Equals(r.heap, salt, r.id, n)
    /\ SameAnnotations(r.heap, r.id, n)
    /\ Range(iterate(r.heap, r.id)) \cap Range(iterate(r.heap, n)) = {}
    /\ \A i \in Ids(h) : r.heap[i] = h[i]

\* C21: every constructed node has a clone: clone() succeeds, the clone
\* equals the node, carries the type set and the ros_type / msg_type of the
\* node on every corresponding node, and shares no node with it, so that a
\* change to the one leaves the other as it was.
C21_CloneFaithful ==
    /\ op.name = "clone" => err = "ok"
    /\ mode = "algebra" /\ err = "ok" =>
        \A n \in AllRoots(heap), salt \in Salts : Faithful(heap, salt, n)

\* the first operation of a run is the clone() of an event that has an
\* alias, and it raises a type error
C21_CloneRaises ==
    /\ op.name = "clone" /\ err = "HplTypeError" /\ steps = 1
    /\ \E e \in Ids(heap) : is_simple_event(heap[e]) /\ heap[e].aux = "m"

\* the operators the table marks commutative
CommutativeOperators == {"+", "*", "and", "or", "iff", "=", "!="}

\* b is the operator of a over the operands of a, the other way round
IsSwap(h, a, b) ==
    /\ h[a].kind = "HplBinaryOperator" /\ h[b].kind = "HplBinaryOperator"
    /\ h[a].name = h[b].name
    /\ eq(h, h[a].kids[1], h[b].kids[2]) /\ eq(h, h[a].kids[2], h[b].kids[1])

\* b is the disjunction of the events of a, the other way round
IsSwappedDisjunction(h, a, b) ==
    /\ is_event_disjunction(h[a]) /\ is_event_disjunction(h[b])
    /\ eq(h, h[a].kids[1], h[b].kids[2]) /\ eq(h, h[a].kids[2], h[b].kids[1])

ExprRoots(h) == {n \in AllRoots(h) : is_expression(h[n])}

\* C22: the commutative operators are +, *, and, or, iff, = and !=; an
\* operator over two operands equals the same operator over the operands
\* swapped when it is commutative, whatever the operands, and when it is not,
\* exactly when the two operands are equal; a disjunction equals the
\* disjunction of the same events swapped.  (Every heap is examined in the
\* state that made it: == and hash() leave the heap as it is.)
C22_Commutativity ==
    /\ \A o \in BinaryOperators : commutative(o) <=> o \in CommutativeOperators
    /\ (mode = "algebra" /\ ret = NoValue) =>
        /\ \A o \in BinaryOperators, a, b \in ExprRoots(heap) :
            LET r1 == HplBinaryOperator(heap, o, a, b)
                r2 == HplBinaryOperator(r1.heap, o, b, a)
            IN r1.err = "ok" /\ r2.err = "ok" =>
                (eq(r2.heap, r1.id, r2.id) <=> (commutative(o) \/ eq(heap, a, b)))
        /\ \A x, y \in RootEvents(heap) :
            LET r1 == HplEventDisjunction(heap, x, y)
                r2 == HplEventDisjunction(r1.heap, y, x)
            IN r1.err = "ok" /\ r2.err = "ok" => eq(r2.heap, r1.id, r2.id)
    /\ op.name = "eq" =>
        LET a == ret.of[1]
            b == ret.of[2]
        IN
        /\ IsSwap(heap, a, b) =>
            (ret.is <=> (commutative(heap[a].name)
                         \/ eq(heap, heap[a].kids[1], heap[a].kids[2])))
        /\ IsSwappedDisjunction(heap, a, b) => ret.is

\* == has been applied to a commutative operator over two different operands
\* and to the same operator over the operands swapped, and has held
C22_SwappedEqual ==
    /\ op.name = "eq" /\ IsSwap(heap, ret.of[1], ret.of[2]) /\ ret.is
    /\ commutative(heap[ret.of[1]].name)
    /\ ~eq(heap, heap[ret.of[1]].kids[1], heap[ret.of[1]].kids[2])

\* every property of the specification a equals a property of b
PropertiesWithin(h, a, b) ==
    \A p \in Range(h[a].kids) : \E q \in Range(h[b].kids) : eq(h, p, q)

SameProperties(h, a, b) == PropertiesWithin(h, a, b) /\ PropertiesWithin(h, b, a)

Specifications(h) == {n \in Ids(h) : h[n].kind = "HplSpecification"}

\* C23: two specifications are equal exactly when each property of the one
\* equals a property of the other, whatever the order of the lists and
\* however often a property occurs in them; properties that differ by the
\* order of the operands of a commutative operator or of a disjunction count
\* as the same.
C23_SetOfProperties ==
    /\ mode = "algebra" =>
        \A a, b \in Specifications(heap), salt \in Salts :
            specification_eq(heap, salt, a, b) <=> SameProperties(heap, a, b)
    /\ op.name = "eq" /\ ret.of[1] \in Specifications(heap)
            /\ ret.of[2] \in Specifications(heap) =>
        (ret.is <=> SameProperties(heap, ret.of[1], ret.of[2]))

\* == has been applied to two specifications of one property each, the
\* properties equal up to the order of the operands of `+`, and has not held
C23_SwappedUnequal ==
    /\ op.name = "eq" /\ ~ret.is
    /\ ret.of[1] \in Specifications(heap) /\ ret.of[2] \in Specifications(heap)
    /\ Len(heap[ret.of[1]].kids) = 1 /\ Len(heap[ret.of[2]].kids) = 1
    /\ eq(heap, heap[ret.of[1]].kids[1], heap[ret.of[2]].kids[1])
    /\ \E n \in Range(iterate(heap, ret.of[1])) :
        heap[n].kind = "HplBinaryOperator" /\ heap[n].name = "+"

\* C24: two nodes that are equal have a hash each and the same one; so have
\* a commutative operator and the same operator over the operands swapped,
\* and a disjunction and the disjunction of the same events swapped.
C24_HashConsistent ==
    /\ op.name = "hash" => err = "ok"
    /\ mode = "algebra" =>
        \A a, b \in AllRoots(heap), salt \in Salts :
            Equals(heap, salt, a, b) =>
                /\ hash(heap, salt, a) # Unhashable
                /\ hash(heap, salt, a) = hash(heap, salt, b)

\* hash() has been applied to a commutative operator over two different
\* operands; the same operator over the operands swapped equals it and has
\* another hash
C24_SwappedHashDiffers ==
    /\ op.name = "hash" /\ err = "ok"
    /\ \E b \in AllRoots(heap) :
        /\ IsSwap(heap, ret.of[1], b) /\ commutative(heap[b].name)
        /\ eq(heap, ret.of[1], b)
        /\ hash(heap, ret.salt, b) # ret.is

-----------------------------------------------------------------------------
(* Static checks of the constructors.                                      *)

\* the types every one of the references refs can take
Meet(h, refs) == {t \in T_ANY : \A i \in 1..Len(refs) : t \in h[refs[i]].types}

\* HplPredicate(e) in the heap h: the references of each string form end with
\* the types they all could take before, and a string form whose references
\* have no type in common makes the constructor raise a type error
SameStringSameType(h, e) ==
    LET r == HplPredicate(h, e)
        table == ref_table(h, e)
    IN
    /\ r.err = "ok" =>
        \A i \in 1..Len(table) : \A j \in 1..Len(table[i].refs) :
            r.heap[table[i].refs[j]].types = Meet(h, table[i].refs)
    /\ (\E i \in 1..Len(table) : Meet(h, table[i].refs) = {}) => r.err = "HplTypeError"

\* the accessors and variable references below n
References(h, n) ==
    {i \in Range(iterate(h, n)) : is_accessor(h[i]) \/ (is_value(h[i]) /\ is_variable(h[i]))}

\* C25: once a predicate over a condition is constructed, the accessors and
\* variable references of the condition that print alike have one type set,
\* the intersection of the type sets they had when the constructor was
\* called; when that intersection is empty the constructor raises a type
\* error.
C25_SameStringSameType ==
    /\ mode = "pred" =>
        /\ \A e \in Ids(heap) : is_expression(heap[e]) => SameStringSameType(heap, e)
        /\ \A p, q \in Ids(heap) :
            /\ heap[p].kind = "HplPredicate" /\ heap[q].kind = "HplPredicate" =>
                LET c == HplBinaryOperator(heap, "and", heap[p].kids[1], heap[q].kids[1]) IN
                c.err = "ok" => SameStringSameType(c.heap, c.id)
    /\ op.name \in {"HplPredicate", "join", "negate"} /\ err = "ok"
            /\ heap[op.id].kind = "HplPredicate" =>
        \A a, b \in References(heap, op.id) :
            str(heap, a) = str(heap, b) => heap[a].types = heap[b].types

\* join() has made a predicate in which the field `x` occurs as an operand
\* of `=`, which asks for a primitive type only, and as an operand of `>`:
\* both occurrences are numbers
C25_JoinedNarrowed ==
    /\ op.name = "join" /\ err = "ok" /\ heap[op.id].kind = "HplPredicate"
    /\ \E n, m \in Range(iterate(heap, op.id)) :
        /\ heap[n].kind = "HplBinaryOperator" /\ heap[n].name = "="
        /\ heap[m].kind = "HplBinaryOperator" /\ heap[m].name = ">"
        /\ heap[n].kids[1] # heap[m].kids[1]
        /\ str(heap, heap[n].kids[1]) = "x" /\ str(heap, heap[m].kids[1]) = "x"
        /\ heap[heap[n].kids[1]].types = T_NUM

MaxArity == 4

\* the signature takes the arguments: as many as it declares (or more, when
\* its last parameter repeats), each able to take its parameter's type
Takes(h, args, sig) ==
    /\ Len(args) = Len(sig.types) \/ (sig.var_args /\ Len(args) > Len(sig.types))
    /\ \A i \in 1..Len(args) :
        h[args[i]].types \cap sig.types[IF i < Len(sig.types) THEN i ELSE Len(sig.types)] # {}

\* the type the signature asks of the object n, at every place n is passed
Asked(args, sig, n) ==
    {t \in T_ANY : \A i \in 1..Len(args) :
        args[i] = n => t \in sig.types[IF i < Len(sig.types) THEN i ELSE Len(sig.types)]}

\* HplFunctionCall(f, args) in the heap h resolves as the claim says
Resolved(h, f, args) ==
    LET sigs == Builtins(f).params
        taking == {i \in 1..Len(sigs) : Takes(h, args, sigs[i])}
        first == CHOOSE i \in taking : \A j \in taking : i <= j
        r == HplFunctionCall(h, f, args)
    IN
    IF f \in BuiltinNames /\ taking # {}
    THEN /\ r.err = "ok"
         /\ r.heap[r.id].types = Builtins(f).output
         /\ \A n \in Ids(h) :
                /\ r.heap[n].types = h[n].types \cap Asked(args, sigs[first], n)
                /\ [r.heap[n] EXCEPT !.types = {}] = [h[n] EXCEPT !.types = {}]
    ELSE r.err = "HplTypeError" /\ r.heap = h

\* the argument lists of one to MaxArity of the objects ns
ArgLists(ns) == UNION {[1..k -> ns] : k \in 1..MaxArity}

\* C26: a call takes the first signature of the function, in the order they
\* are declared, that has the arity of the call (or a smaller one, when its
\* last parameter repeats) and whose parameter types every argument can
\* take, and narrows each argument to its parameter's type; a call no
\* signature takes, as max, min or gcd of one number, raises a type error
\* and changes no type set.
C26_FirstMatchingSignature ==
    /\ mode = "expr" =>
        \A f \in CallNames, args \in ArgLists(Roots(heap)) : Resolved(heap, f, args)
    /\ \A f \in {"max", "min", "gcd"} :
        LET x == HplLiteral(<<>>, "1", "int", 1) IN
        HplFunctionCall(x.heap, f, <<x.id>>).err = "HplTypeError"
    /\ op.name = "HplFunctionCall" /\ err = "ok" =>
        /\ heap[op.id].types = Builtins(heap[op.id].name).output
        /\ \E i \in 1..Len(Builtins(heap[op.id].name).params) :
            Takes(heap, heap[op.id].kids, Builtins(heap[op.id].name).params[i])

\* max() of a variable and a field has been constructed: the signature of a
\* collection does not take two arguments, the signature of numbers does,
\* and both arguments are numbers now
C26_SecondSignature ==
    /\ op.name = "HplFunctionCall" /\ err = "ok" /\ heap[op.id].name = "max"
    /\ Len(heap[op.id].kids) = 2
    /\ \E i \in 1..2 : is_variable(heap[heap[op.id].kids[i]])
    /\ \A i \in 1..2 : heap[heap[op.id].kids[i]].types = T_NUM

\* a constructor's result r for an operator of output type out over the
\* operands args, asked for the types ins, in the heap h
RowApplied(h, r, args, ins, out) ==
    IF \E i \in 1..Len(args) : h[args[i]].types \cap ins[i] = {}
    THEN r.err = "HplTypeError"
    ELSE /\ r.err = "ok"
         /\ r.heap[r.id].types = out
         /\ r.heap[r.id].kids = args
         /\ \A i \in 1..Len(args) :
                /\ r.heap[args[i]].types = h[args[i]].types \cap ins[i]
                /\ r.heap[args[i]].types # {}

\* C27: a unary or binary operator that is constructed has the output type
\* of its row of the operator table, and each operand is left with the types
\* it had that its column of the row allows, at least one; an operand that
\* has none of the types of its column makes the constructor raise a type
\* error.
C27_OperatorTable ==
    /\ mode = "expr" =>
        /\ \A o \in UnaryOperators, a \in Roots(heap) :
            RowApplied(heap, HplUnaryOperator(heap, o, a), <<a>>,
                       <<UnaryOps(o)[1]>>, UnaryOps(o)[2])
        /\ \A o \in BinaryOperators, a, b \in Roots(heap) :
            a # b => RowApplied(heap, HplBinaryOperator(heap, o, a, b), <<a, b>>,
                                <<BinaryOps(o)[1], BinaryOps(o)[2]>>, BinaryOps(o)[3])
    /\ op.name = "HplUnaryOperator" =>
        IF err = "ok"
        THEN /\ heap[op.id].types = UnaryOps(heap[op.id].name)[2]
             /\ heap[heap[op.id].kids[1]].types # {}
             /\ heap[heap[op.id].kids[1]].types \subseteq UnaryOps(heap[op.id].name)[1]
        ELSE err = "HplTypeError"
    /\ op.name = "HplBinaryOperator" =>
        IF err = "ok"
        THEN /\ heap[op.id].types = BinaryOps(heap[op.id].name)[3]
             /\ \A i \in 1..2 :
                    /\ heap[heap[op.id].kids[i]].types # {}
                    /\ heap[heap[op.id].kids[i]].types \subseteq BinaryOps(heap[op.id].name)[i]
        ELSE err = "HplTypeError"

\* `in` has been constructed over a variable and a range: the operator is
\* Boolean, the variable is left with the primitive types
C27_MembershipTyped ==
    /\ op.name = "HplBinaryOperator" /\ err = "ok" /\ heap[op.id].name = "in"
    /\ heap[op.id].types = T_BOOL
    /\ is_variable(heap[heap[op.id].kids[1]])
    /\ heap[heap[op.id].kids[1]].types = T_PRIM
    /\ is_range(heap[heap[op.id].kids[2]])

\* the type of the items of a domain: of a set the types of its values, of a
\* range numbers, of anything else the primitive types
ItemTypes(h, d) ==
    IF h[d].kind = "HplSet" THEN UNION {h[h[d].kids[i]].types : i \in 1..Len(h[d].kids)}
    ELSE IF h[d].kind = "HplRange" THEN T_NUM
    ELSE T_PRIM

\* the checks HplQuantifier makes before it types the occurrences of v pass
EarlierChecksPass(h, v, d, p, shadow) ==
    /\ Quantified(h, v, d, p, shadow).err \notin {"HplSanityError", "AssertionError"}
    /\ h[d].types \cap T_COMP # {} /\ h[p].types \cap T_BOOL # {}

\* C28: once a quantifier is constructed, every occurrence of its variable in
\* the body has the types it had that the items of the domain have: the
\* types of the values of a set, numbers for a range, the primitive types
\* for any other domain (and is Boolean when it is the whole body).  An
\* occurrence that has none of them, as every
\* occurrence has when the domain is the empty set, makes the constructor
\* fail, with a type error once the checks that come first have passed.
C28_VariableTyped ==
    /\ mode = "expr" =>
        \A v \in QuantVars, d, p \in Roots(heap), shadow \in BOOLEAN :
            d # p =>
                LET r == Quantified(heap, v, d, p, shadow)
                    t == ItemTypes(heap, d)
                IN
                /\ r.err = "ok" =>
                    \A n \in Range(Occurrences(heap, p, v)) :
                        /\ r.heap[n].types =
                                heap[n].types \cap t \cap (IF n = p THEN T_BOOL ELSE T_ANY)
                        /\ r.heap[n].types # {}
                /\ (\E n \in Range(Occurrences(heap, p, v)) : heap[n].types \cap t = {}) =>
                    /\ r.err # "ok"
                    /\ EarlierChecksPass(heap, v, d, p, shadow) => r.err = "HplTypeError"
    /\ op.name = "HplQuantifier" /\ err = "ok" =>
        \A n \in Range(Occurrences(heap, heap[op.id].kids[2], heap[op.id].name)) :
            /\ heap[n].types # {}
            /\ heap[n].types \subseteq ItemTypes(heap, heap[op.id].kids[1])

\* a quantifier over the set of a number and a string has been constructed;
\* its variable occurs in the body, as a number
C28_SetDomain ==
    /\ op.name = "HplQuantifier" /\ err = "ok"
    /\ heap[heap[op.id].kids[1]].kind = "HplSet"
    /\ ItemTypes(heap, heap[op.id].kids[1]) = T_NUM \cup T_STR
    /\ \E n \in Range(Occurrences(heap, heap[op.id].kids[2], heap[op.id].name)) :
        heap[n].types = T_NUM


-----------------------------------------------------------------------------
(* Boolean algebra of predicates: negate() and join().                     *)

Predicates(h) == {p \in Ids(h) : is_predicate(h[p])}

\* negate() twice gives a predicate equal to the first
DoubleNegation(h, p) ==
    LET r == negate(h, p) IN
    /\ r.err = "ok"
    /\ LET s == negate(r.heap, r.id) IN
        /\ s.err = "ok"
        /\ eq(s.heap, s.id, p)

\* the two vacuous predicates negate to each other, and `not e` negates to e
NegationCases(h, p) ==
    LET r == negate(h, p)
        c == h[p].kids[1]
    IN
    /\ h[p].kind = "HplVacuousTruth" => r.err = "ok" /\ r.heap[r.id].kind = "HplContradiction"
    /\ h[p].kind = "HplContradiction" => r.err = "ok" /\ r.heap[r.id].kind = "HplVacuousTruth"
    /\ (h[p].kind = "HplPredicate" /\ is_operator(h[c]) /\ h[c].name = "not") =>
        /\ r.err = "ok"
        /\ r.heap[r.id].kind = "HplPredicate"
        /\ r.heap[r.id].kids = <<h[c].kids[1]>>

\* join with a vacuous predicate on either side: truth is an identity,
\* contradiction absorbs
JoinVacuous(h, p, q) ==
    LET r == join(h, p, q) IN
    /\ h[p].kind = "HplVacuousTruth" => r.err = "ok" /\ eq(r.heap, r.id, q)
    /\ h[q].kind = "HplVacuousTruth" =>
        r.err = "ok" /\ eq(r.heap, r.id, p)
    /\ h[p].kind = "HplContradiction" =>
        r.err = "ok" /\ r.heap[r.id].kind = "HplContradiction"
    /\ h[q].kind = "HplContradiction" =>
        r.err = "ok" /\ r.heap[r.id].kind = "HplContradiction"

\* r is the predicate of `a and b`, a and b the conditions of p and q
IsConjunction(h, p, q, r) ==
    /\ r.err = "ok"
    /\ r.heap[r.id].kind = "HplPredicate"
    /\ LET c == r.heap[r.id].kids[1] IN
        /\ r.heap[c].kind = "HplBinaryOperator" /\ r.heap[c].name = "and"
        /\ r.heap[c].kids = <<h[p].kids[1], h[q].kids[1]>>

\* the references of `a and b` that print alike have a type in common
Compatible(h, p, q) ==
    LET c == HplBinaryOperator(h, "and", h[p].kids[1], h[q].kids[1])
        table == ref_table(c.heap, c.id)
    IN
    /\ c.err = "ok"
    /\ \A i \in 1..Len(table) : Meet(c.heap, table[i].refs) # {}

\* join of two predicates that are not vacuous
JoinConditions(h, p, q) ==
    (h[p].kind = "HplPredicate" /\ h[q].kind = "HplPredicate") =>
        IsConjunction(h, p, q, join(h, p, q))

\* the same, where the two conditions agree on the types of their references,
\* and a type error where they do not
JoinCompatible(h, p, q) ==
    (h[p].kind = "HplPredicate" /\ h[q].kind = "HplPredicate") =>
        IF Compatible(h, p, q) THEN IsConjunction(h, p, q, join(h, p, q))
        ELSE join(h, p, q).err = "HplTypeError"

-----------------------------------------------------------------------------
(* sanity_check changes nothing.                                           *)

\* the exception and message of sanity_check on the property of the state
Outcome(h, p) == [err |-> sanity_check(h, p).err, msg |-> sanity_check(h, p).msg]

\* C30: a step of sanity_check, passed or failed, leaves every node of the
\* heap as it was (types, ros_type, alias, defined_at, children) and reports
\* what sanity_check reports again on the tree it leaves; and no step on a
\* constructed property, refine_types included, whether it succeeds or fails
\* half-way, changes what sanity_check reports.
C30_SanityCheckPure ==
    [][ /\ op'.name = "sanity_check" =>
            /\ heap' = heap /\ prop' = prop
            /\ Outcome(heap', prop') = [err |-> err', msg |-> errmsg']
        /\ (mode \in PropModes /\ prop # 0) =>
            /\ prop' = prop
            /\ Outcome(heap', prop) = Outcome(heap, prop) ]_vars

\* sanity_check has failed on a property that refine_types had annotated
C30_FailedAfterRefinement ==
    /\ mode = "prop" /\ op.name = "sanity_check" /\ err = "HplSanityError"
    /\ \E n \in Ids(heap) : is_expression(heap[n]) /\ heap[n].ros # None

====
